---- MODULE Spec2Model ----
(***************************************************************************)
(* Verification model of the forecast engine (src/forecast-engine):        *)
(*   datasetter.py  DataRow.to_torch_tensor and the dataset build          *)
(*   utils.py       build_*_dict, openai_embeddings_parallel               *)
(*   grouper.py     the writer of the dictionary JSON files                *)
(*   runner.py      _load_ordered_dict, _resolve_checkpoint,               *)
(*                  _load_model_and_scaler, _prepare_input, run            *)
(*   train.py       split_dataset, standardize_features, evaluate, train   *)
(* Tensors are sequences of integers; an ordered Python dict is a sequence *)
(* of <<key, value>> pairs in insertion order; a str holding a decimal     *)
(* number is the sequence of its digits.                                   *)
(***************************************************************************)
EXTENDS Integers, Sequences, FiniteSets, TLC

VARIABLES
  \* ---- encoding pipeline (datasetter.py, grouper.py, runner._prepare_input)
  data,               \* the loaded table, one DataRow per spreadsheet row
  files,              \* data/*.json as written by grouper.py
  ds_pc,              \* datasetter __main__: "dicts", "build", "saved"
  ds_dicts,           \* the dictionaries datasetter __main__ built
  tensor_list_input,  \* datasetter __main__: the encoded rows so far
  call,               \* the encoder call made on the JSON dictionaries
  \* ---- runner.run from the base vector on (runner.py:117)
  run_pc,             \* "check_dim", "linspace", "batch", "standardize", "raised"
  x0,                 \* the base vector
  sales_value,        \* run's sales_value argument
  num_points,         \* run's num_points argument
  margins,            \* torch.linspace(lo, hi, steps=num_points)
  X,                  \* the sweep batch, one row per point
  \* ---- runner.run, checkpoint resolution and loading (runner.py:112-114)
  path_kind,          \* what model_path names: "file", "dir" or "missing"
  entries,            \* the directory: file name -> mtime, 0 when absent
  trusted_ack,        \* the caller has acknowledged the source as trusted
  ld_pc,              \* position in run / _load_model_and_scaler
  ckpt,               \* what _resolve_checkpoint returned or raised
  blob,               \* the content of the checkpoint file being loaded
  loads,              \* the torch.load calls made so far, in order
  model,              \* the ForecastNet: its parameters and training flag
  ret,                \* the (input_mean, input_std) returned
  signals,            \* what the loader logged or flagged to its caller
  \* ---- input standardization from train() to run() (train.py:88-94,
  \*      train.py:193-198, runner.py:46-52, runner.py:130-134)
  st_pc,              \* "standardize", "save", "load", "run", "done", "raised"
  use_input_standardization,  \* cfg.use_input_standardization
  split_x,            \* what split_dataset returned: [train, test] inputs
  in_train,           \* train()'s in_train
  in_test,            \* train()'s in_test
  input_mean,         \* train()'s input_mean, None or a vector
  input_std,          \* train()'s input_std, None or a vector
  input_scaler,       \* final.pt's "input_scaler" entry
  run_stats,          \* run()'s (input_mean, input_std) from the loader
  run_X0,             \* run()'s batch X before line 131
  run_X,              \* run()'s batch X after line 134
  \* ---- one run of train.train from its first line on (train.py:81-202)
  tr_pc,              \* position in train()
  tr_error,           \* the exception that ended the run, "" when none
  cfg,                \* the TrainConfig
  env,                \* what the dataset fixes: width, batches, test rows
  epoch,              \* the loop variable of line 137
  batch,              \* batches of the current epoch done so far
  net,                \* the model's parameters and its training flag
  opt,                \* the optimizer: steps taken, state, learning rate
  sched,              \* the ReduceLROnPlateau scheduler
  metrics,            \* the metrics of the last evaluation
  saved,              \* the torch.save calls of the run, in order
  tr_warnings,        \* the warnings the run has surfaced
  epochs_run,         \* history: the epochs begun, in order
  last_batch,         \* history: the last batch, its loss and the state before
  finite_seen,        \* history: a batch of the current epoch had a finite loss
  failed_epochs,      \* history: the epochs whose batches were all non-finite
  lr_log,             \* history: per epoch, test RMSE and the rate before/after
  tr_work,            \* history: the computations done on the features
  \* ---- several runs of train.train on one file system (train.py:104-107,
  \*      train.py:170-172, train.py:178-201)
  clock,              \* the UTC clock, in half seconds
  dirs,               \* the run directories under checkpoints/
  disk,               \* the files in them
  fs_log,             \* history: every torch.save, and whether it replaced a file
  runs,               \* per run: position, ts, cfg.epochs, epoch, test MAEs
  \* ---- one train() run writing its run directory while run() resolves and
  \*      loads from it (train.py:137-201, runner.py:20-59)
  sv_pc,              \* the writer: "loop", "open", "writing", "done", "raised"
  sv_cfg,             \* its TrainConfig: epochs, use_input_standardization
  sv_epoch,           \* epochs finished
  sv_net,             \* the model's parameters (the epochs that formed them)
  sv_target,          \* the file torch.save is about to write or is writing
  sv_metrics,         \* the metrics of the final evaluation
  sv_dir,             \* the run directory: file name -> mtime, 0 when absent
  sv_files,           \* the bytes of each file
  rd_pc,              \* the reader: "resolve", "load", "returned", "raised"
  rd_ckpt,            \* what _resolve_checkpoint returned or raised
  rd_seen,            \* history: the state of the resolved file at that moment
  rd_blob,            \* what torch.load returned
  rd_model,           \* the loaded ForecastNet
  rd_ret,             \* the (input_mean, input_std) returned
  \* ---- calls of split_dataset (train.py:29-36)
  sp_calls,           \* history: arguments and result of each call made so far
  sp_rng,             \* what randperm gives per (n, generator state), once drawn
  sp_draws,           \* how many permutations the process has drawn
  \* ---- one call of openai_embeddings_parallel (utils.py:61-72)
  em_pc,              \* "start", "submit", "collect", "raising", "returned", "raised"
  em_texts,           \* the argument texts
  em_max_workers,     \* the argument max_workers
  em_unique,          \* unique_texts
  em_futures,         \* futures: the text of each future, in submission order
  em_queue,           \* the executor's work queue: futures not yet started
  em_running,         \* the futures a worker thread is running
  em_done,            \* finished futures with their outcome, in completion order
  em_collected,       \* how many of them as_completed has handed out
  em_results          \* results

encVars == <<data, files, ds_pc, ds_dicts, tensor_list_input, call>>

sweepVars == <<run_pc, x0, sales_value, num_points, margins, X>>

loadVars == <<path_kind, entries, trusted_ack, ld_pc, ckpt, blob, loads,
              model, ret, signals>>

stdVars == <<st_pc, use_input_standardization, split_x, in_train, in_test,
             input_mean, input_std, input_scaler, run_stats, run_X0, run_X>>

trainVars == <<tr_pc, tr_error, cfg, env, epoch, batch, net, opt, sched,
               metrics, saved, tr_warnings, epochs_run, last_batch,
               finite_seen, failed_epochs, lr_log, tr_work>>

runsVars == <<clock, dirs, disk, fs_log, runs>>

serveVars == <<sv_pc, sv_cfg, sv_epoch, sv_net, sv_target, sv_metrics,
               sv_dir, sv_files, rd_pc, rd_ckpt, rd_seen, rd_blob, rd_model,
               rd_ret>>

splitVars == <<sp_calls, sp_rng, sp_draws>>

embedVars == <<em_pc, em_texts, em_max_workers, em_unique, em_futures,
               em_queue, em_running, em_done, em_collected, em_results>>

vars == <<encVars, sweepVars, loadVars, stdVars, trainVars, runsVars, serveVars, splitVars, embedVars>>

\* what the actions of one program leave alone: the other programs' state
notEncVars == <<sweepVars, loadVars, stdVars, trainVars, runsVars, serveVars, splitVars, embedVars>>

notSweepVars == <<encVars, loadVars, stdVars, trainVars, runsVars, serveVars, splitVars, embedVars>>

notLoadVars == <<encVars, sweepVars, stdVars, trainVars, runsVars, serveVars, splitVars, embedVars>>

notStdVars == <<encVars, sweepVars, loadVars, trainVars, runsVars, serveVars, splitVars, embedVars>>

notTrainVars == <<encVars, sweepVars, loadVars, stdVars, runsVars, serveVars, splitVars, embedVars>>

notRunsVars == <<encVars, sweepVars, loadVars, stdVars, trainVars, serveVars, splitVars, embedVars>>

notServeVars == <<encVars, sweepVars, loadVars, stdVars, trainVars, runsVars, splitVars, embedVars>>

notSplitVars == <<encVars, sweepVars, loadVars, stdVars, trainVars, runsVars, serveVars, embedVars>>

notEmbedVars == <<encVars, sweepVars, loadVars, stdVars, trainVars, runsVars, serveVars, splitVars>>

-----------------------------------------------------------------------------
(* Bounds and input universes *)

MaxRows == 2

TypeCodes == {"A", "B"}
GroupCodes == {10, 20}
SubgroupCodes == {100}
BrandCodes == {"X"}

\* values a scenario may name that the table may not contain
CallSubgroups == SubgroupCodes \cup {200}
CallBrands == BrandCodes \cup {"Y"}

Date(y, m, d) == [year |-> y, month |-> m, day |-> d]

TableDates == {<<Date(2024, 3, 1), Date(2024, 12, 31), Date(2024, 3, 5)>>}
CallDates == TableDates \cup {<<Date(2023, 3, 1), Date(2023, 12, 31), Date(2023, 1, 1)>>}

MkRow(dt, t, g, s, b, sv, mv) ==
  [promo_start_date |-> dt[1], promo_end_date |-> dt[2], date |-> dt[3],
   type |-> t, group |-> g, subgroup |-> s, brand |-> b,
   product_name |-> "p", sales_value |-> sv, margin_value |-> mv]

TableRows ==
  {MkRow(dt, t, g, s, b, 5, 2) :
     dt \in TableDates, t \in TypeCodes, g \in GroupCodes,
     s \in SubgroupCodes, b \in BrandCodes}

CallRows ==
  {MkRow(dt, t, g, s, b, 5, mv) :
     dt \in CallDates, t \in TypeCodes, g \in GroupCodes,
     s \in CallSubgroups, b \in CallBrands, mv \in {0, 2}}

Tables == UNION {[1..n -> TableRows] : n \in 0..MaxRows}

-----------------------------------------------------------------------------
(* Helpers on sequences used as ordered dicts *)

KeySet(d) == {d[i][1] : i \in 1..Len(d)}

\* dict.__setitem__: a new key is appended, an existing key keeps its place
\* and takes the new value
DictSet(d, k, v) ==
  IF k \in KeySet(d)
    THEN [i \in 1..Len(d) |-> IF d[i][1] = k THEN <<k, v>> ELSE d[i]]
    ELSE Append(d, <<k, v>>)

RECURSIVE DictFromPairs(_)
DictFromPairs(ps) ==
  IF ps = <<>> THEN <<>>
  ELSE DictSet(DictFromPairs(SubSeq(ps, 1, Len(ps) - 1)),
               ps[Len(ps)][1], ps[Len(ps)][2])

-----------------------------------------------------------------------------
(* str(int) and int(str) on decimal digit sequences *)

RECURSIVE IntToStr(_)
IntToStr(n) ==
  IF n < 10 THEN <<n>> ELSE Append(IntToStr(n \div 10), n % 10)

RECURSIVE StrToInt(_)
StrToInt(s) ==
  IF Len(s) = 1 THEN s[1]
  ELSE 10 * StrToInt(SubSeq(s, 1, Len(s) - 1)) + s[Len(s)]

\* key_type(k) of _load_ordered_dict: "int" parses, "str" leaves a str as is
KeyType(kt, k) == IF kt = "int" THEN StrToInt(k) ELSE k

-----------------------------------------------------------------------------
(* utils.py / grouper.py: dictionaries from the table, and their JSON files *)

build_group_dict(d) ==
  DictFromPairs([i \in 1..Len(d) |-> <<d[i].group, "desc">>])

build_subgroup_dict(d) ==
  DictFromPairs([i \in 1..Len(d) |-> <<d[i].subgroup, "desc">>])

build_brand_dict(d) ==
  DictFromPairs([i \in 1..Len(d) |-> <<d[i].brand, d[i].brand>>])

build_type_dict(d) ==
  DictFromPairs([i \in 1..Len(d) |-> <<d[i].type, d[i].type>>])

\* json.dumps of a dict: int keys become decimal strings, order is kept
JsonDumps(kt, d) ==
  [i \in 1..Len(d) |->
     <<IF kt = "int" THEN IntToStr(d[i][1]) ELSE d[i][1], d[i][2]>>]

\* the loader with its int-keyed entries sorted by key instead of kept in
\* file order
RECURSIVE SortedInsert(_, _)
SortedInsert(d, e) ==
  IF d = <<>> THEN <<e>>
  ELSE IF e[1] < d[1][1] THEN <<e>> \o d
  ELSE <<d[1]>> \o SortedInsert(Tail(d), e)

RECURSIVE SortByKey(_)
SortByKey(d) ==
  IF d = <<>> THEN <<>>
  ELSE SortedInsert(SortByKey(SubSeq(d, 1, Len(d) - 1)), d[Len(d)])

load_ordered_dict_sorted(file, kt) ==
  LET d == DictFromPairs([i \in 1..Len(file) |->
                            <<KeyType(kt, file[i][1]), file[i][2]>>])
  IN IF kt = "int" THEN SortByKey(d) ELSE d

\* runner._load_ordered_dict: a dict comprehension over the parsed file
_load_ordered_dict(file, kt) ==
  DictFromPairs([i \in 1..Len(file) |-> <<KeyType(kt, file[i][1]), file[i][2]>>])

-----------------------------------------------------------------------------
(* datasetter.py: DataRow.to_torch_tensor *)

IsLeap(y) == (y % 4 = 0 /\ y % 100 # 0) \/ y % 400 = 0

DaysBefore(m, y) ==
  CASE m = 1 -> 0 [] m = 2 -> 31 [] m = 3 -> 59 [] m = 4 -> 90
    [] m = 5 -> 120 [] m = 6 -> 151 [] m = 7 -> 181 [] m = 8 -> 212
    [] m = 9 -> 243 [] m = 10 -> 273 [] m = 11 -> 304 [] m = 12 -> 334

\* datetime.timetuple().tm_yday
tm_yday(dt) ==
  DaysBefore(dt.month, dt.year) + dt.day
    + (IF dt.month > 2 /\ IsLeap(dt.year) THEN 1 ELSE 0)

\* [1 if key == value else 0 for key in d.keys()]
OneHot(value, d) == [i \in 1..Len(d) |-> IF d[i][1] = value THEN 1 ELSE 0]

to_torch_tensor(self, group_dict, subgroup_dict, brand_dict, type_dict) ==
  <<tm_yday(self.promo_start_date),
    tm_yday(self.promo_end_date),
    tm_yday(self.date)>>
  \o OneHot(self.type, type_dict)
  \o OneHot(self.group, group_dict)
  \o OneHot(self.subgroup, subgroup_dict)
  \o OneHot(self.brand, brand_dict)
  \o <<self.sales_value, self.margin_value>>

\* A Python call of the method with positional arguments: the method takes
\* exactly four besides self; any other number raises TypeError.
Returned(v) == [err |-> "", vec |-> v]

Raised(e) == [err |-> e, vec |-> <<>>]

CallToTorchTensor(self, args) ==
  IF Len(args) # 4 THEN Raised("TypeError")
  ELSE Returned(to_torch_tensor(self, args[1], args[2], args[3], args[4]))

-----------------------------------------------------------------------------
(* openai_embedding: the external embedding of a product name *)

EmbeddingDim == 32

openai_embedding(text) == [i \in 1..EmbeddingDim |-> 0]

-----------------------------------------------------------------------------
(* The encoding pipeline: grouper.py writes the JSON dictionaries of the    *)
(* table, datasetter.py encodes the table, runner.py encodes one scenario   *)
(* against the JSON dictionaries.                                           *)

NoFiles == [stored |-> FALSE, type |-> <<>>, group |-> <<>>,
            subgroup |-> <<>>, brand |-> <<>>]

NoDicts == [type |-> <<>>, group |-> <<>>, subgroup |-> <<>>, brand |-> <<>>]

NoRow == MkRow(<<Date(2024, 1, 1), Date(2024, 1, 1), Date(2024, 1, 1)>>,
               "", 0, 0, "", 0, 0)

NoCall == [op |-> "none", row |-> NoRow, out |-> Raised("")]

\* the other programs are not running
SweepIdle ==
  /\ run_pc = "idle" /\ x0 = <<>> /\ sales_value = 0 /\ num_points = 0
  /\ margins = <<>> /\ X = <<>>

\* Optional[...]: None is <<>>, a value v is <<v>>
None == <<>>

Some(v) == <<v>>

FileNames == {"final.pt", "epoch_001_0.50.pt", "epoch_002_0.40.pt", "notes.txt"}

NoBlob == [safe |-> TRUE, readable |-> FALSE, shape |-> "other",
           state |-> "bad",
           scaler |-> [kind |-> "none", mean |-> None, std |-> None]]

LoadIdle ==
  /\ path_kind = "missing" /\ entries = [n \in FileNames |-> 0]
  /\ trusted_ack = FALSE /\ ld_pc = "idle"
  /\ ckpt = [err |-> "", path |-> ""] /\ blob = NoBlob /\ loads = <<>>
  /\ model = [params |-> "none", training |-> FALSE]
  /\ ret = [input_mean |-> None, input_std |-> None]
  /\ signals = {}

StdIdle ==
  /\ st_pc = "idle" /\ use_input_standardization = FALSE
  /\ split_x = [train |-> <<>>, test |-> <<>>]
  /\ in_train = <<>> /\ in_test = <<>>
  /\ input_mean = None /\ input_std = None
  /\ input_scaler = NoBlob.scaler
  /\ run_stats = [input_mean |-> None, input_std |-> None]
  /\ run_X0 = <<>> /\ run_X = <<>>

NoCfg == [epochs |-> 0, lr |-> <<0, 1>>, plateau_patience |-> 0,
          min_lr |-> <<0, 1>>, use_input_standardization |-> FALSE]

NoEnv == [input_dim |-> 0, n_batches |-> 0, test_rows |-> 0]

NoNet == [version |-> 0, nan |-> FALSE, training |-> FALSE]

NoOpt == [steps |-> 0, nan |-> FALSE, lr |-> <<0, 1>>]

NoSched == [best |-> None, num_bad_epochs |-> 0]

NoMetrics == [rmse |-> [nan |-> TRUE, q |-> <<0, 1>>],
              mae |-> [nan |-> TRUE, q |-> <<0, 1>>]]

NoBatch == [done |-> FALSE, finite |-> TRUE, net |-> NoNet, opt |-> NoOpt]

TrainIdle ==
  /\ tr_pc = "idle" /\ tr_error = ""
  /\ cfg = NoCfg /\ env = NoEnv
  /\ epoch = 0 /\ batch = 0
  /\ net = NoNet /\ opt = NoOpt /\ sched = NoSched
  /\ metrics = NoMetrics
  /\ saved = <<>> /\ tr_warnings = {}
  /\ epochs_run = <<>> /\ last_batch = NoBatch
  /\ finite_seen = FALSE /\ failed_epochs = {} /\ lr_log = <<>>
  /\ tr_work = {}

MaxRuns == 2

RunIds == 1..MaxRuns

NoRun == [pc |-> "idle", ts |-> 0, epochs |-> 0, epoch |-> 0, maes |-> <<>>]

RunsIdle ==
  /\ clock = 0 /\ dirs = {} /\ disk = {} /\ fs_log = <<>>
  /\ runs = [r \in RunIds |-> NoRun]

ServeIdle ==
  /\ sv_pc = "idle" /\ sv_cfg = [epochs |-> 0, use_input_standardization |-> FALSE]
  /\ sv_epoch = 0 /\ sv_net = 0 /\ sv_target = "" /\ sv_metrics = 0
  /\ sv_dir = [n \in FileNames |-> 0] /\ sv_files = [n \in FileNames |-> <<>>]
  /\ rd_pc = "idle" /\ rd_ckpt = [err |-> "", path |-> ""]
  /\ rd_seen = [complete |-> TRUE, fatal |-> FALSE]
  /\ rd_blob = <<>> /\ rd_model = [params |-> 0, training |-> TRUE]
  /\ rd_ret = [input_mean |-> None, input_std |-> None]

SplitIdle ==
  sp_calls = <<>> /\ sp_rng = <<>> /\ sp_draws = 0

EmbedIdle ==
  /\ em_pc = "idle" /\ em_texts = <<>> /\ em_max_workers = 0
  /\ em_unique = <<>> /\ em_futures = <<>> /\ em_queue = <<>>
  /\ em_running = {} /\ em_done = <<>> /\ em_collected = 0
  /\ em_results = <<>>

EncodeIdle ==
  /\ data = <<>> /\ files = NoFiles /\ ds_pc = "idle" /\ ds_dicts = NoDicts
  /\ tensor_list_input = <<>> /\ call = NoCall

InitEncode ==
  /\ data \in Tables
  /\ files = NoFiles
  /\ ds_pc = "dicts"
  /\ ds_dicts = NoDicts
  /\ tensor_list_input = <<>>
  /\ call = NoCall
  /\ SweepIdle
  /\ LoadIdle
  /\ StdIdle
  /\ TrainIdle
  /\ RunsIdle
  /\ ServeIdle
  /\ SplitIdle
  /\ EmbedIdle

\* grouper.py __main__: the four build_*_dict calls, each writing its file
GrouperMain ==
  /\ ~files.stored
  /\ files' = [stored |-> TRUE,
               type |-> JsonDumps("str", build_type_dict(data)),
               group |-> JsonDumps("int", build_group_dict(data)),
               subgroup |-> JsonDumps("int", build_subgroup_dict(data)),
               brand |-> JsonDumps("str", build_brand_dict(data))]
  /\ UNCHANGED <<data, ds_pc, ds_dicts, tensor_list_input, call, notEncVars>>

\* datasetter.py __main__, "Building dictionaries..."
DatasetterBuildDicts ==
  /\ ds_pc = "dicts"
  /\ ds_dicts' = [type |-> build_type_dict(data),
                  group |-> build_group_dict(data),
                  subgroup |-> build_subgroup_dict(data),
                  brand |-> build_brand_dict(data)]
  /\ ds_pc' = "build"
  /\ UNCHANGED <<data, files, tensor_list_input, call, notEncVars>>

\* datasetter.py __main__, one iteration of the "Building dataset..." loop
DatasetterEncodeRow ==
  /\ ds_pc = "build"
  /\ Len(tensor_list_input) < Len(data)
  /\ LET row == data[Len(tensor_list_input) + 1]
         out == CallToTorchTensor(row, <<ds_dicts.group, ds_dicts.subgroup,
                                         ds_dicts.brand, ds_dicts.type>>)
     IN IF out.err = ""
          THEN /\ tensor_list_input' = Append(tensor_list_input, out.vec)
               /\ ds_pc' = ds_pc
          ELSE /\ tensor_list_input' = tensor_list_input
               /\ ds_pc' = "raised"
  /\ UNCHANGED <<data, files, ds_dicts, call, notEncVars>>

\* datasetter.py __main__, torch.stack and torch.save; torch.stack raises on
\* an empty list
DatasetterSave ==
  /\ ds_pc = "build"
  /\ Len(tensor_list_input) = Len(data)
  /\ ds_pc' = IF Len(data) = 0 THEN "raised" ELSE "saved"
  /\ UNCHANGED <<data, files, ds_dicts, tensor_list_input, call, notEncVars>>

\* the four _load_ordered_dict calls of runner._prepare_input
LoadedDicts ==
  [type |-> _load_ordered_dict(files.type, "str"),
   group |-> _load_ordered_dict(files.group, "int"),
   subgroup |-> _load_ordered_dict(files.subgroup, "int"),
   brand |-> _load_ordered_dict(files.brand, "str")]

\* DataRow.to_torch_tensor called with the four dictionaries loaded from the
\* JSON files
EncodeCall(row) ==
  /\ call.op = "none"
  /\ files.stored
  /\ call' = [op |-> "to_torch_tensor", row |-> row,
              out |-> CallToTorchTensor(row,
                        <<LoadedDicts.group, LoadedDicts.subgroup,
                          LoadedDicts.brand, LoadedDicts.type>>)]
  /\ UNCHANGED <<data, files, ds_pc, ds_dicts, tensor_list_input, notEncVars>>

\* runner._prepare_input: open() raises when the files are not there; the
\* encoder is called with a fifth argument, name_to_embedding
_prepare_input(row) ==
  IF ~files.stored THEN Raised("FileNotFoundError")
  ELSE LET name_to_embedding ==
             <<<<row.product_name, openai_embedding(row.product_name)>>>>
       IN CallToTorchTensor(row,
            <<LoadedDicts.group, LoadedDicts.subgroup, LoadedDicts.brand,
              LoadedDicts.type, name_to_embedding>>)

PrepareInput(row) ==
  /\ call.op = "none"
  /\ call' = [op |-> "_prepare_input", row |-> row, out |-> _prepare_input(row)]
  /\ UNCHANGED <<data, files, ds_pc, ds_dicts, tensor_list_input, notEncVars>>

NextEncode ==
  \/ GrouperMain
  \/ DatasetterBuildDicts
  \/ DatasetterEncodeRow
  \/ DatasetterSave
  \/ \E row \in CallRows : EncodeCall(row)
  \/ \E row \in CallRows : PrepareInput(row)

SpecEncode == InitEncode /\ [][NextEncode]_vars

-----------------------------------------------------------------------------
(* Properties of the encoder (SpecEncode) *)

Axes == <<"type", "group", "subgroup", "brand">>

AxisKeyType(a) == IF a \in {"group", "subgroup"} THEN "int" ELSE "str"

AxisValue(row, a) ==
  CASE a = "type" -> row.type
    [] a = "group" -> row.group
    [] a = "subgroup" -> row.subgroup
    [] a = "brand" -> row.brand

\* the width of the file of axis number k, and where its block starts in a
\* vector: after the three day-of-year values and the blocks before it
FileWidth(k) == Len(files[Axes[k]])

RECURSIVE BlockStart(_)
BlockStart(k) == IF k = 1 THEN 3 ELSE BlockStart(k - 1) + FileWidth(k - 1)

Block(vec, k) == SubSeq(vec, BlockStart(k) + 1, BlockStart(k) + FileWidth(k))

\* the values of axis k as the file keys name them, in file order
FileKeys(k) ==
  [p \in 1..FileWidth(k) |-> KeyType(AxisKeyType(Axes[k]), files[Axes[k]][p][1])]

EncoderCalled == call.op = "to_torch_tensor"

\* C1: a record whose value on some axis is not a key of that axis's
\* dictionary makes to_torch_tensor fail with UnknownCategory; no vector is
\* returned for it.
C1_UnknownCategoryRaises ==
  EncoderCalled =>
    \A k \in 1..4 :
      (\A p \in 1..FileWidth(k) : FileKeys(k)[p] # AxisValue(call.row, Axes[k]))
        => call.out = Raised("UnknownCategory")

\* C2: the returned vector has length = the four dictionary sizes + the five
\* fixed scalars + the embedding width.
C2_LengthIncludesEmbedding ==
  (EncoderCalled /\ call.out.err = "") =>
    Len(call.out.vec) =
      FileWidth(1) + FileWidth(2) + FileWidth(3) + FileWidth(4)
        + 3 + 2 + EmbeddingDim

\* C3: for a value that is a key of the loaded dictionary, the one-hot block
\* is 1 at the position the key has in the JSON file and 0 elsewhere.
C3_OneHotFollowsFileOrder ==
  (EncoderCalled /\ call.out.err = "") =>
    \A k \in 1..4 : \A p \in 1..FileWidth(k) :
      FileKeys(k)[p] = AxisValue(call.row, Axes[k])
        => Block(call.out.vec, k) = [i \in 1..FileWidth(k) |-> IF i = p THEN 1 ELSE 0]

\* the scenario of the specification: files A,B / 10,20 / 100 / X and the
\* record (B, 20, 100, X) give the blocks [0,1], [0,1], [1], [1]
C3_Witness ==
  /\ EncoderCalled
  /\ FileKeys(1) = <<"A", "B">>
  /\ files.group[1][1] = <<1, 0>>
  /\ FileKeys(2) = <<10, 20>>
  /\ FileKeys(3) = <<100>>
  /\ FileKeys(4) = <<"X">>
  /\ call.row.type = "B" /\ call.row.group = 20
  /\ call.row.subgroup = 100 /\ call.row.brand = "X"
  /\ SubSeq(call.out.vec, 4, 9) = <<0, 1, 0, 1, 1, 1>>

\* C4: the vector runner._prepare_input builds for a record equals the one
\* the dataset build made for the same record with the same dictionaries; the
\* inference-time call is accepted by the encoder.
C4_TrainInferIdentical ==
  (call.op = "_prepare_input" /\ files.stored) =>
    /\ call.out.err # "TypeError"
    /\ \A i \in 1..Len(tensor_list_input) :
         (data[i] = call.row /\ ds_dicts = LoadedDicts)
           => call.out = Returned(tensor_list_input[i])

-----------------------------------------------------------------------------
(* Exact arithmetic for the float tensors of runner.run: a value is a       *)
(* reduced fraction <<numerator, denominator>> with denominator > 0.        *)

Abs(n) == IF n < 0 THEN -n ELSE n

RECURSIVE GCD(_, _)
GCD(a, b) == IF b = 0 THEN a ELSE GCD(b, a % b)

Frac(n, d) ==
  LET g == GCD(Abs(n), Abs(d))
      sgn == IF d < 0 THEN -1 ELSE 1
  IN <<sgn * (n \div g), sgn * (d \div g)>>

Rat(n) == <<n, 1>>

RatAdd(a, b) == Frac(a[1] * b[2] + b[1] * a[2], a[2] * b[2])

RatSub(a, b) == Frac(a[1] * b[2] - b[1] * a[2], a[2] * b[2])

RatMul(a, b) == Frac(a[1] * b[1], a[2] * b[2])

\* a float32 tensor from a list of Python numbers
Tensor(v) == [j \in 1..Len(v) |-> Rat(v[j])]

-----------------------------------------------------------------------------
(* The model's input width and the dictionaries it was sized for (nn.py)    *)

INPUT_DIM == 1260

TypeDictSize == 3
GroupDictSize == 160
SubgroupDictSize == 592
BrandDictSize == 500

SizedDicts ==
  [type |-> [i \in 1..TypeDictSize |-> <<ToString(i), ToString(i)>>],
   group |-> [i \in 1..GroupDictSize |-> <<i, "desc">>],
   subgroup |-> [i \in 1..SubgroupDictSize |-> <<i, "desc">>],
   brand |-> [i \in 1..BrandDictSize |-> <<ToString(i), ToString(i)>>]]

SmallDicts ==
  [type |-> <<<<"1", "1">>, <<"2", "2">>>>,
   group |-> <<<<2, "desc">>, <<1, "desc">>>>,
   subgroup |-> <<<<1, "desc">>>>,
   brand |-> <<<<"1", "1">>>>]

-----------------------------------------------------------------------------
(* runner.run, lines 117-128: the dimension check, the margins, the batch   *)

MaxPoints == 4

SweepSales == {-3, 0, 5}

\* run() builds the base row with margin_value = 0.0
BaseRow(t, g, sv) ==
  MkRow(<<Date(2024, 3, 1), Date(2024, 12, 31), Date(2024, 3, 5)>>,
        t, g, 1, "1", sv, 0)

BaseVector(row, dicts) ==
  Tensor(to_torch_tensor(row, dicts.group, dicts.subgroup, dicts.brand, dicts.type))

InitSweep ==
  /\ EncodeIdle
  /\ LoadIdle
  /\ StdIdle
  /\ TrainIdle
  /\ RunsIdle
  /\ ServeIdle
  /\ SplitIdle
  /\ EmbedIdle
  /\ run_pc = "check_dim"
  /\ sales_value \in SweepSales
  /\ num_points \in -1..MaxPoints
  /\ \E t \in {"1", "2"}, g \in {1, 2}, dicts \in {SizedDicts, SmallDicts} :
       x0 = BaseVector(BaseRow(t, g, sales_value), dicts)
  /\ margins = <<>>
  /\ X = <<>>

\* if x0.numel() != model.INPUT_DIM: raise ValueError
RunCheckDim ==
  /\ run_pc = "check_dim"
  /\ run_pc' = IF Len(x0) # INPUT_DIM THEN "raised" ELSE "linspace"
  /\ UNCHANGED <<x0, sales_value, num_points, margins, X, notSweepVars>>

\* torch.linspace(start, end, steps): steps values from start to end with
\* step (end - start) / (steps - 1), the upper half counted down from end;
\* one step gives start alone, none gives the empty tensor
linspace(start, end, steps) ==
  IF steps = 1 THEN <<Rat(start)>>
  ELSE LET step == Frac(end - start, steps - 1)
           halfway == steps \div 2
       IN [i \in 1..steps |->
             IF i - 1 < halfway
               THEN RatAdd(Rat(start), RatMul(step, Rat(i - 1)))
               ELSE RatSub(Rat(end), RatMul(step, Rat(steps - i)))]

\* lo = -sales_value; hi = sales_value; margins = torch.linspace(...);
\* a negative number of steps raises RuntimeError
RunLinspace ==
  /\ run_pc = "linspace"
  /\ LET lo == -sales_value
         hi == sales_value
     IN IF num_points < 0
          THEN /\ run_pc' = "raised"
               /\ margins' = margins
          ELSE /\ run_pc' = "batch"
               /\ margins' = linspace(lo, hi, num_points)
  /\ UNCHANGED <<x0, sales_value, num_points, X, notSweepVars>>

\* x0.unsqueeze(0).repeat(n, 1) with the batch written through a view that
\* shares x0's storage (expand): every row and x0 itself take the last write
build_batch_shared(base, ms, n) ==
  LET w == IF n = 0 THEN base
           ELSE [j \in 1..Len(base) |-> IF j = Len(base) THEN ms[n] ELSE base[j]]
  IN [batch |-> [i \in 1..n |-> w], base |-> w]

\* X = x0.unsqueeze(0).repeat(num_points, 1); X[:, -1] = margins
\* repeat copies x0, so the write leaves x0 as it was
build_batch(base, ms, n) ==
  [batch |-> [i \in 1..n |->
                [j \in 1..Len(base) |-> IF j = Len(base) THEN ms[i] ELSE base[j]]],
   base |-> base]

RunBuildBatch ==
  /\ run_pc = "batch"
  /\ LET r == build_batch(x0, margins, num_points)
     IN /\ X' = r.batch
        /\ x0' = r.base
  /\ run_pc' = "standardize"
  /\ UNCHANGED <<sales_value, num_points, margins, notSweepVars>>

NextSweep ==
  \/ RunCheckDim
  \/ RunLinspace
  \/ RunBuildBatch

SpecSweep == InitSweep /\ [][NextSweep]_vars

-----------------------------------------------------------------------------
(* Properties of the margin sweep (SpecSweep) *)

MarginsGenerated == run_pc \in {"batch", "standardize"}

BatchBuilt == run_pc = "standardize"

\* C6: before standardization X has num_points rows; row i equals the base
\* vector x0 (built with margin 0) at every position but the last, which
\* holds the i-th margin; x0 is never modified.
C6_OnlyMarginVaries ==
  /\ [](BatchBuilt =>
          /\ Len(X) = num_points
          /\ x0[Len(x0)] = Rat(0)
          /\ \A i \in 1..num_points :
               /\ Len(X[i]) = Len(x0)
               /\ \A j \in 1..(Len(x0) - 1) : X[i][j] = x0[j]
               /\ X[i][Len(x0)] = margins[i])
  /\ [][x0' = x0]_vars

C6_Witness ==
  /\ BatchBuilt
  /\ num_points >= 2
  /\ Len(X) = num_points
  /\ X[1][Len(x0)] = Rat(-sales_value)
  /\ X[num_points][Len(x0)] = Rat(sales_value)
  /\ X[1][Len(x0)] # X[num_points][Len(x0)]

-----------------------------------------------------------------------------
(* runner.run, lines 112-114: _resolve_checkpoint and _load_model_and_scaler *)

MaxMtime == 2

\* model_path.glob("epoch_*.pt")
GlobEpoch(dir) ==
  {n \in {"epoch_001_0.50.pt", "epoch_002_0.40.pt"} : dir[n] # 0}

Resolved(p) == [err |-> "", path |-> p]

NotResolved == [err |-> "FileNotFoundError", path |-> ""]

\* the resolution with the epoch files taken oldest first
resolve_checkpoint_oldest(kind, dir) ==
  IF kind = "file" THEN {Resolved("model_path")}
  ELSE IF kind = "dir" /\ dir["final.pt"] # 0 THEN {Resolved("final.pt")}
  ELSE IF kind = "dir" /\ GlobEpoch(dir) # {}
    THEN {Resolved(n) : n \in {f \in GlobEpoch(dir) :
                                 \A g \in GlobEpoch(dir) : dir[f] <= dir[g]}}
  ELSE {NotResolved}

\* _resolve_checkpoint: the outcomes it can have. sorted(..., reverse=True)
\* is stable, so among epoch files of equal mtime the one glob yields first
\* comes first: any of them.
_resolve_checkpoint(kind, dir) ==
  IF kind = "file" THEN {Resolved("model_path")}
  ELSE IF kind = "dir" /\ dir["final.pt"] # 0 THEN {Resolved("final.pt")}
  ELSE IF kind = "dir" /\ GlobEpoch(dir) # {}
    THEN {Resolved(n) : n \in {f \in GlobEpoch(dir) :
                                 \A g \in GlobEpoch(dir) : dir[f] >= dir[g]}}
  ELSE {NotResolved}

\* What a checkpoint file can hold. safe: torch.load(weights_only=True)
\* accepts it; readable: torch.load(weights_only=False) accepts it; shape:
\* a dict with "model_state" ("rich"), another dict ("raw"), or no dict;
\* state: the parameters, "bad" when they do not fit ForecastNet; scaler:
\* the "input_scaler" entry: None, {}, a dict with optional mean and std, or
\* some other truthy value.
Scalers ==
  {[kind |-> k, mean |-> None, std |-> None] : k \in {"none", "empty", "other"}}
  \cup {[kind |-> "dict", mean |-> m, std |-> sd] :
          m \in {None, Some("mean")}, sd \in {None, Some("std")}}

Blobs ==
  {[safe |-> sf, readable |-> TRUE, shape |-> "rich", state |-> st, scaler |-> sc] :
     sf \in BOOLEAN, st \in {"w1", "w2", "bad"}, sc \in Scalers}
  \cup
  {[safe |-> sf, readable |-> TRUE, shape |-> sh, state |-> st, scaler |-> NoBlob.scaler] :
     sf \in BOOLEAN, sh \in {"raw", "other"}, st \in {"w1", "w2", "bad"}}
  \cup {NoBlob}

InitLoad ==
  /\ EncodeIdle
  /\ SweepIdle
  /\ StdIdle
  /\ TrainIdle
  /\ RunsIdle
  /\ ServeIdle
  /\ SplitIdle
  /\ EmbedIdle
  /\ path_kind \in {"file", "dir", "missing"}
  /\ entries \in [FileNames -> 0..MaxMtime]
  /\ path_kind # "dir" => entries = [n \in FileNames |-> 0]
  /\ trusted_ack \in BOOLEAN
  /\ ld_pc = "resolve"
  /\ ckpt = [err |-> "", path |-> ""]
  /\ blob = NoBlob
  /\ loads = <<>>
  /\ model = [params |-> "none", training |-> FALSE]
  /\ ret = [input_mean |-> None, input_std |-> None]
  /\ signals = {}

\* run: ckpt_path = _resolve_checkpoint(model_path); a raise ends run
RunResolve ==
  /\ ld_pc = "resolve"
  /\ \E r \in _resolve_checkpoint(path_kind, entries) :
       /\ ckpt' = r
       /\ ld_pc' = IF r.err = "" THEN "construct" ELSE "raised"
  /\ UNCHANGED <<path_kind, entries, trusted_ack, blob, loads, model, ret,
                 signals, notLoadVars>>

\* model = ForecastNet().to(device): fresh parameters, training mode
LoadConstruct ==
  /\ ld_pc = "construct"
  /\ model' = [params |-> "init", training |-> TRUE]
  /\ ld_pc' = "safe_load"
  /\ UNCHANGED <<path_kind, entries, trusted_ack, ckpt, blob, loads, ret,
                 signals, notLoadVars>>

\* try: add_safe_globals; torch.load(ckpt_path, weights_only=True) on
\* whatever the file holds; any exception of the two leads to the fallback
LoadSafe ==
  /\ ld_pc = "safe_load"
  /\ \E b \in Blobs :
       /\ blob' = b
       /\ ld_pc' = IF b.safe /\ b.readable THEN "branch" ELSE "unsafe_load"
  /\ loads' = Append(loads, "weights_only=True")
  /\ UNCHANGED <<path_kind, entries, trusted_ack, ckpt, model, ret, signals,
                 notLoadVars>>

\* except Exception: torch.load(ckpt_path, weights_only=False)
LoadUnsafe ==
  /\ ld_pc = "unsafe_load"
  /\ loads' = Append(loads, "weights_only=False")
  /\ ld_pc' = IF blob.readable THEN "branch" ELSE "raised"
  /\ UNCHANGED <<path_kind, entries, trusted_ack, ckpt, blob, model, ret,
                 signals, notLoadVars>>

Truthy(scaler) == scaler.kind = "dict"

\* the scaler test with "or" in place of "and"
scaler_stats_either(b) ==
  IF b.shape = "rich" /\ Truthy(b.scaler)
     /\ (b.scaler.mean # None \/ b.scaler.std # None)
    THEN [input_mean |-> b.scaler.mean, input_std |-> b.scaler.std]
    ELSE [input_mean |-> None, input_std |-> None]

\* if scaler and scaler.get("mean") is not None and scaler.get("std") is not None
scaler_stats(b) ==
  IF b.shape = "rich" /\ Truthy(b.scaler)
     /\ b.scaler.mean # None /\ b.scaler.std # None
    THEN [input_mean |-> b.scaler.mean, input_std |-> b.scaler.std]
    ELSE [input_mean |-> None, input_std |-> None]

\* the shape branch: the scaler is read first (scaler.get raises on a
\* truthy value that is no dict), then model.load_state_dict, which raises
\* on parameters that do not fit and on a blob that is no mapping
LoadBranch ==
  /\ ld_pc = "branch"
  /\ IF \/ blob.shape = "other"
        \/ blob.state = "bad"
        \/ (blob.shape = "rich" /\ blob.scaler.kind = "other")
       THEN /\ ld_pc' = "raised"
            /\ model' = model
            /\ ret' = ret
       ELSE /\ ld_pc' = "eval"
            /\ model' = [model EXCEPT !.params = blob.state]
            /\ ret' = scaler_stats(blob)
  /\ UNCHANGED <<path_kind, entries, trusted_ack, ckpt, blob, loads, signals,
                 notLoadVars>>

\* model.eval(); return model, input_mean, input_std
LoadReturn ==
  /\ ld_pc = "eval"
  /\ model' = [model EXCEPT !.training = FALSE]
  /\ ld_pc' = "returned"
  /\ UNCHANGED <<path_kind, entries, trusted_ack, ckpt, blob, loads, ret,
                 signals, notLoadVars>>

NextLoad ==
  \/ RunResolve
  \/ LoadConstruct
  \/ LoadSafe
  \/ LoadUnsafe
  \/ LoadBranch
  \/ LoadReturn

SpecLoad == InitLoad /\ [][NextLoad]_vars

-----------------------------------------------------------------------------
(* Properties of checkpoint resolution and loading (SpecLoad) *)

EpochNames == {"epoch_001_0.50.pt", "epoch_002_0.40.pt"}

HasFinal == path_kind = "dir" /\ entries["final.pt"] # 0

HasEpoch == path_kind = "dir" /\ \E n \in EpochNames : entries[n] # 0

\* C7: a file resolves to itself; a directory to its final.pt, whatever the
\* mtimes of its epoch files; a directory without final.pt to an epoch file
\* of greatest mtime; anything else raises and no load is attempted.
C7_ResolutionPolicy ==
  ld_pc # "resolve" =>
    /\ path_kind = "file" => ckpt = Resolved("model_path")
    /\ HasFinal => ckpt = Resolved("final.pt")
    /\ (HasEpoch /\ ~HasFinal) =>
         /\ ckpt.err = ""
         /\ ckpt.path \in EpochNames
         /\ entries[ckpt.path] # 0
         /\ \A n \in EpochNames : entries[n] <= entries[ckpt.path]
    /\ (path_kind # "file" /\ ~HasFinal /\ ~HasEpoch) =>
         /\ ckpt = NotResolved
         /\ ld_pc = "raised"
         /\ loads = <<>>
         /\ model.params = "none"

\* the example of the specification: an older epoch_001_0.50.pt, a newer
\* epoch_002_0.40.pt and no final.pt
C7_Witness ==
  /\ ld_pc # "resolve"
  /\ path_kind = "dir"
  /\ entries["final.pt"] = 0
  /\ entries["epoch_001_0.50.pt"] = 1
  /\ entries["epoch_002_0.40.pt"] = 2
  /\ ckpt = Resolved("epoch_002_0.40.pt")

UnsafeUsed == \E i \in 1..Len(loads) : loads[i] = "weights_only=False"

RestrictedFailed ==
  /\ Len(loads) >= 1
  /\ loads[1] = "weights_only=True"
  /\ ~(blob.safe /\ blob.readable)

\* C8: the unrestricted load runs only after the restricted one failed and
\* the caller acknowledged the source as trusted; without the acknowledgment
\* a failed restricted load ends in an error.
C8_UnsafeLoadNeedsAck ==
  /\ UnsafeUsed => (RestrictedFailed /\ trusted_ack)
  /\ (RestrictedFailed /\ ~trusted_ack /\ ld_pc # "unsafe_load") => ld_pc = "raised"

\* C9: an execution that used the unrestricted fallback has signalled
\* UnsafeCheckpointFallback to its caller by the time it returns.
C9_FallbackIsSignalled ==
  (UnsafeUsed /\ ld_pc = "returned")
    => "UnsafeCheckpointFallback" \in signals

\* C10: on return the model has the file's parameters and is in evaluation
\* mode, for the rich and the raw shape; mean and std are returned for the
\* rich shape with both present, and are both None otherwise.
C10_EvalModeAndScaler ==
  ld_pc = "returned" =>
    /\ blob.shape \in {"rich", "raw"}
    /\ model.params = blob.state
    /\ ~model.training
    /\ ret = IF blob.shape = "rich"
                /\ blob.scaler.mean # None /\ blob.scaler.std # None
               THEN [input_mean |-> blob.scaler.mean, input_std |-> blob.scaler.std]
               ELSE [input_mean |-> None, input_std |-> None]

C10_Witness ==
  /\ ld_pc = "returned"
  /\ blob.shape = "rich"
  /\ model = [params |-> "w2", training |-> FALSE]
  /\ ret = [input_mean |-> Some("mean"), input_std |-> Some("std")]

-----------------------------------------------------------------------------
(* Input standardization: train.standardize_features (train.py:69-79), the  *)
(* "input_scaler" entry of final.pt (train.py:193-198) and the              *)
(* standardization of the sweep batch in run (runner.py:130-134).           *)
(* Inputs are counted in units of 1e-9, so they are integers; a column's    *)
(* standard deviation is kept as the square root of its exact variance, and *)
(* a standardized entry as the centred value with its divisor.              *)

MaxTrainRows == 2

MaxTestRows == 1

\* the rows a matrix is made of, two columns wide
StdRows == {<<0, 0>>, <<4, 0>>, <<20, 4>>}

Matrices(n) == UNION {[1..k -> StdRows] : k \in 0..n}

\* 1e-8, the threshold of train.py:76 and runner.py:133, in units of 1e-9
StdEpsilon == 10

RatLess(a, b) == a[1] * b[2] < b[1] * a[2]

\* a float: a number or NaN
FNum(q) == [nan |-> FALSE, q |-> q]

FNaN == [nan |-> TRUE, q |-> Rat(0)]

\* a standard deviation or divisor: 1.0, the square root of var, or NaN
One == [kind |-> "one", var |-> Rat(1)]

SqrtOf(v) == [kind |-> "sqrt", var |-> v]

NaNStd == [kind |-> "nan", var |-> Rat(0)]

\* s < 1e-8 as torch evaluates it: false for NaN
Below(s) == s.kind = "sqrt" /\ RatLess(s.var, Rat(StdEpsilon * StdEpsilon))

\* an entry of an input matrix: the value num / div
RawEntry(x) == [num |-> FNum(Rat(x)), div |-> One]

NaNEntry == [num |-> FNaN, div |-> NaNStd]

FloatMatrix(m) == [i \in 1..Len(m) |-> [j \in 1..Len(m[i]) |-> RawEntry(m[i][j])]]

RECURSIVE SumCol(_, _, _)
SumCol(m, j, n) == IF n = 0 THEN 0 ELSE SumCol(m, j, n - 1) + m[n][j]

RECURSIVE SumSqCol(_, _, _)
SumSqCol(m, j, n) ==
  IF n = 0 THEN 0 ELSE SumSqCol(m, j, n - 1) + m[n][j] * m[n][j]

NumCols(m) == IF Len(m) = 0 THEN Len(CHOOSE r \in StdRows : TRUE) ELSE Len(m[1])

\* train_x.mean(dim=0): NaN over no rows
ColMean(m, j) ==
  IF Len(m) = 0 THEN FNaN ELSE FNum(Frac(SumCol(m, j, Len(m)), Len(m)))

\* train_x.std(dim=0): the unbiased estimate, sum((x - mean)^2) / (n - 1)
\* under the root; NaN over fewer than two rows
ColStd(m, j) ==
  LET n == Len(m)
      s == SumCol(m, j, n)
      q == SumSqCol(m, j, n)
  IN IF n < 2 THEN NaNStd ELSE SqrtOf(Frac(n * q - s * s, n * (n - 1)))

\* x - mean on an entry that has not been divided yet
Centre(e, mu) ==
  IF e.num.nan \/ mu.nan THEN NaNEntry
  ELSE [num |-> FNum(RatSub(e.num.q, mu.q)), div |-> e.div]

\* e / s on an entry that has not been divided yet
Divide(e, s) ==
  IF e.num.nan \/ s.kind = "nan" THEN NaNEntry ELSE [num |-> e.num, div |-> s]

\* (x - mean) / std, row by row with the statistics broadcast
Transform(x, mean, std) ==
  [i \in 1..Len(x) |->
     [j \in 1..Len(x[i]) |-> Divide(Centre(x[i][j], mean[j]), std[j])]]

\* max(std, 1e-8) in place of the replacement by 1.0
clamp_std(s) == IF Below(s) THEN SqrtOf(Rat(StdEpsilon * StdEpsilon)) ELSE s

\* torch.where(std < 1e-8, 1.0, std)
where_std(s) == IF Below(s) THEN One ELSE s

Cols(m) == 1..NumCols(m)

\* the docstring's formula, (x - mean) / (std + 1e-8), with std returned
\* as computed
standardize_features_docstring(train_x, test_x) ==
  LET mean == [j \in Cols(train_x) |-> ColMean(train_x, j)]
      std == [j \in Cols(train_x) |-> ColStd(train_x, j)]
      div == [j \in Cols(train_x) |->
                IF std[j].kind = "nan" THEN NaNStd
                ELSE [kind |-> "sqrt_plus_eps", var |-> std[j].var]]
  IN [train_x |-> Transform(FloatMatrix(train_x), mean, div),
      test_x |-> Transform(FloatMatrix(test_x), mean, div),
      mean |-> mean, std |-> std]

\* the statistics taken over the training and the test rows together
standardize_features_pooled(train_x, test_x) ==
  LET all == train_x \o test_x
      mean == [j \in Cols(all) |-> ColMean(all, j)]
      std == [j \in Cols(all) |-> where_std(ColStd(all, j))]
  IN [train_x |-> Transform(FloatMatrix(train_x), mean, std),
      test_x |-> Transform(FloatMatrix(test_x), mean, std),
      mean |-> mean, std |-> std]

\* the statistics with the small deviations raised to 1e-8
standardize_features_clamped(train_x, test_x) ==
  LET mean == [j \in Cols(train_x) |-> ColMean(train_x, j)]
      std == [j \in Cols(train_x) |-> clamp_std(ColStd(train_x, j))]
  IN [train_x |-> Transform(FloatMatrix(train_x), mean, std),
      test_x |-> Transform(FloatMatrix(test_x), mean, std),
      mean |-> mean, std |-> std]

\* mean and std of the training rows, per column; std below 1e-8 replaced
\* by 1.0; both matrices transformed with them
standardize_features(train_x, test_x) ==
  LET mean == [j \in Cols(train_x) |-> ColMean(train_x, j)]
      std == [j \in Cols(train_x) |-> where_std(ColStd(train_x, j))]
  IN [train_x |-> Transform(FloatMatrix(train_x), mean, std),
      test_x |-> Transform(FloatMatrix(test_x), mean, std),
      mean |-> mean, std |-> std]

\* the standardization applied whatever the configuration says
always_standardize(use, tr, te) ==
  LET r == standardize_features(tr, te)
  IN [in_train |-> r.train_x, in_test |-> r.test_x,
      input_mean |-> Some(r.mean), input_std |-> Some(r.std)]

\* train.py:90-94
optional_standardize(use, tr, te) ==
  IF use
    THEN LET r == standardize_features(tr, te)
         IN [in_train |-> r.train_x, in_test |-> r.test_x,
             input_mean |-> Some(r.mean), input_std |-> Some(r.std)]
    ELSE [in_train |-> FloatMatrix(tr), in_test |-> FloatMatrix(te),
          input_mean |-> None, input_std |-> None]

\* runner.py:130-134
run_standardize(x, stats) ==
  IF stats.input_mean # None /\ stats.input_std # None
    THEN LET m == stats.input_mean[1]
             sd == stats.input_std[1]
             safe_std == [j \in 1..Len(sd) |-> where_std(sd[j])]
         IN Transform(x, m, safe_std)
    ELSE x

InitStd ==
  /\ EncodeIdle
  /\ SweepIdle
  /\ LoadIdle
  /\ TrainIdle
  /\ RunsIdle
  /\ ServeIdle
  /\ SplitIdle
  /\ EmbedIdle
  /\ st_pc = "standardize"
  /\ use_input_standardization \in BOOLEAN
  /\ \E tr \in Matrices(MaxTrainRows), te \in Matrices(MaxTestRows) :
       /\ split_x = [train |-> tr, test |-> te]
       /\ in_train = FloatMatrix(tr)
       /\ in_test = FloatMatrix(te)
  /\ input_mean = None
  /\ input_std = None
  /\ input_scaler = NoBlob.scaler
  /\ run_stats = [input_mean |-> None, input_std |-> None]
  /\ run_X0 = <<>>
  /\ run_X = <<>>

\* train.py:90-94 on what split_dataset returned
TrainStandardize ==
  /\ st_pc = "standardize"
  /\ LET r == optional_standardize(use_input_standardization,
                                   split_x.train, split_x.test)
     IN /\ in_train' = r.in_train
        /\ in_test' = r.in_test
        /\ input_mean' = r.input_mean
        /\ input_std' = r.input_std
  /\ st_pc' = "save"
  /\ UNCHANGED <<use_input_standardization, split_x, input_scaler, run_stats,
                 run_X0, run_X, notStdVars>>

\* train.py:137-201 as far as the scaler goes: evaluate (torch.cat over the
\* batches of a loader) raises on a partition without rows, so final.pt is
\* written only when both partitions have rows
TrainSaveScaler ==
  /\ st_pc = "save"
  /\ IF Len(split_x.train) = 0 \/ Len(split_x.test) = 0
       THEN /\ st_pc' = "raised"
            /\ input_scaler' = input_scaler
       ELSE /\ st_pc' = "load"
            /\ input_scaler' = [kind |-> "dict", mean |-> input_mean,
                                std |-> input_std]
  /\ UNCHANGED <<use_input_standardization, split_x, in_train, in_test,
                 input_mean, input_std, run_stats, run_X0, run_X, notStdVars>>

\* runner.py:46-52 on the final checkpoint of the run
RunLoadScaler ==
  /\ st_pc = "load"
  /\ run_stats' = scaler_stats([shape |-> "rich", scaler |-> input_scaler])
  /\ st_pc' = "run"
  /\ \E x \in Matrices(MaxTrainRows) : run_X0' = x
  /\ run_X' = run_X
  /\ UNCHANGED <<use_input_standardization, split_x, in_train, in_test,
                 input_mean, input_std, input_scaler, notStdVars>>

\* runner.py:130-134 on the sweep batch
RunStandardize ==
  /\ st_pc = "run"
  /\ run_X' = run_standardize(FloatMatrix(run_X0), run_stats)
  /\ st_pc' = "done"
  /\ UNCHANGED <<use_input_standardization, split_x, in_train, in_test,
                 input_mean, input_std, input_scaler, run_stats, run_X0,
                 notStdVars>>

NextStd ==
  \/ TrainStandardize
  \/ TrainSaveScaler
  \/ RunLoadScaler
  \/ RunStandardize

SpecStd == InitStd /\ [][NextStd]_vars


-----------------------------------------------------------------------------
(* Properties of the input standardization (SpecStd) *)

Standardized == st_pc # "standardize" /\ use_input_standardization

CheckpointWritten == st_pc \in {"load", "run", "done"}

C13_StatsFromTrainingRowsOnly ==
  Standardized =>
    \A te \in Matrices(MaxTestRows) :
      LET r == standardize_features(split_x.train, te)
      IN input_mean = Some(r.mean) /\ input_std = Some(r.std)

C13_Witness ==
  /\ Standardized
  /\ Len(split_x.train) >= 2
  /\ Len(split_x.test) > 0
  /\ \A k \in 1..Len(split_x.train) : split_x.train[k] # split_x.test[1]

\* C14: with use_input_standardization false, train() leaves the inputs as
\* split, the final checkpoint carries no statistics (mean and std are
\* None), the loader returns none, and run() feeds the sweep rows
\* unstandardized.
C14_NoStandardizationWhenOff ==
  ~use_input_standardization =>
    /\ in_train = FloatMatrix(split_x.train)
    /\ in_test = FloatMatrix(split_x.test)
    /\ input_mean = None /\ input_std = None
    /\ input_scaler.mean = None /\ input_scaler.std = None
    /\ run_stats = [input_mean |-> None, input_std |-> None]
    /\ st_pc = "done" => run_X = FloatMatrix(run_X0)

C14_Witness ==
  /\ st_pc = "done"
  /\ ~use_input_standardization
  /\ input_scaler.kind = "dict"
  /\ Len(split_x.train) >= 2
  /\ Len(run_X0) > 0
  /\ run_X = FloatMatrix(run_X0)

-----------------------------------------------------------------------------
(* One run of train.train (train.py:81-202).  The parameters are known by  *)
(* the number of optimizer steps that produced them and by whether they    *)
(* are NaN; a learning rate is an exact fraction in units of 1e-4; what    *)
(* evaluate returns for finite parameters is drawn from a small grid.      *)

MaxEpochs == 3

MaxBatches == 2

\* TrainConfig.plateau_factor
plateau_factor == Frac(1, 2)

\* ReduceLROnPlateau's eps = 1e-8, in units of 1e-4
SchedEps == Frac(1, 10000)

\* ReduceLROnPlateau's threshold = 1e-4 (relative): the factor 1 - 1e-4
SchedThreshold == Frac(9999, 10000)

RatMax(a, b) == IF RatLess(a, b) THEN b ELSE a

Configs ==
  [epochs : 0..MaxEpochs, lr : {Rat(8), Rat(2)}, plateau_patience : {0, 1},
   min_lr : {Rat(1), Rat(3)}, use_input_standardization : BOOLEAN]

\* the dataset: its width, the batches the training partition gives (at
\* least one: without training rows the run does not get past its first
\* evaluation either), the rows of the test partition
Envs ==
  [input_dim : {INPUT_DIM, INPUT_DIM + 32}, n_batches : 1..MaxBatches,
   test_rows : {0, 1}]

\* evaluate on finite parameters: (rmse, mae) of one pass
FiniteMetrics == {[rmse |-> FNum(Rat(v)), mae |-> FNum(Rat(v))] : v \in {1, 2}}

\* evaluate: torch.cat raises on a loader without batches; NaN parameters
\* give NaN metrics
evaluate(n, rows) ==
  IF rows = 0 THEN {Raised("RuntimeError")}
  ELSE IF n.nan THEN {Returned([rmse |-> FNaN, mae |-> FNaN])}
  ELSE {Returned(m) : m \in FiniteMetrics}

\* mode="min", threshold_mode="rel": a < best * (1 - threshold); best
\* starts at infinity (None); a comparison with NaN is false
is_better(a, best) ==
  /\ ~a.nan
  /\ best = None \/ RatLess(a.q, RatMul(best[1], SchedThreshold))

\* _reduce_lr: new_lr = max(old_lr * factor, min_lr), taken when
\* old_lr - new_lr > eps
reduce_lr(lr, c) ==
  LET new_lr == RatMax(RatMul(lr, plateau_factor), c.min_lr)
  IN IF RatLess(SchedEps, RatSub(lr, new_lr)) THEN new_lr ELSE lr

\* the reduction taken as soon as the bad epochs reach the patience
scheduler_step_at_patience(s, lr, a, c) ==
  LET better == is_better(a, s.best)
      best == IF better THEN Some(a.q) ELSE s.best
      bad == IF better THEN 0 ELSE s.num_bad_epochs + 1
  IN IF bad >= c.plateau_patience
       THEN [sched |-> [best |-> best, num_bad_epochs |-> 0],
             lr |-> reduce_lr(lr, c)]
       ELSE [sched |-> [best |-> best, num_bad_epochs |-> bad], lr |-> lr]

\* ReduceLROnPlateau.step(metrics) with cooldown 0: the bad epochs are
\* counted from the last improvement or reduction, and the rate is reduced
\* when they exceed the patience
scheduler_step(s, lr, a, c) ==
  LET better == is_better(a, s.best)
      best == IF better THEN Some(a.q) ELSE s.best
      bad == IF better THEN 0 ELSE s.num_bad_epochs + 1
  IN IF bad > c.plateau_patience
       THEN [sched |-> [best |-> best, num_bad_epochs |-> 0],
             lr |-> reduce_lr(lr, c)]
       ELSE [sched |-> [best |-> best, num_bad_epochs |-> bad], lr |-> lr]

\* f"{epoch:03d}": the decimal digits, padded with zeros to three
Format03d(k) ==
  LET d == IntToStr(k)
  IN IF Len(d) >= 3 THEN d ELSE [i \in 1..(3 - Len(d)) |-> 0] \o d

\* f"{test_mae:.6f}": the value rounded to millionths (half to even), "nan"
\* for NaN
Format6f(f) ==
  IF f.nan THEN [nan |-> TRUE, millionths |-> 0]
  ELSE LET n == f.q[1] * 1000000
           d == f.q[2]
           lo == n \div d
           twice == 2 * (n - lo * d)
       IN [nan |-> FALSE,
           millionths |-> IF twice > d \/ (twice = d /\ lo % 2 = 1)
                            THEN lo + 1 ELSE lo]

\* run_dir / f"epoch_{epoch:03d}_{test_mae:.6f}.pt"
EpochPath(k, mae) == [kind |-> "epoch", epoch |-> Format03d(k), mae |-> Format6f(mae)]

\* run_dir / "final.pt"
FinalPath == [kind |-> "final", epoch |-> <<>>, mae |-> [nan |-> FALSE, millionths |-> 0]]

\* the parameters the model was constructed with
state_dict_initial(n) == [version |-> 0, nan |-> FALSE]

\* model.state_dict()
state_dict(n) == [version |-> n.version, nan |-> n.nan]

FinalKeys ==
  {"model_state", "optimizer_state", "config", "input_dim", "metrics",
   "timestamp_utc", "input_scaler"}

MetricKeys == {"train_rmse", "train_mae", "test_rmse", "test_mae"}

\* the mode is left as the last evaluation set it
model_train_missing(n) == n

\* model.train()
model_train(n) == [n EXCEPT !.training = TRUE]

\* model.eval(), the first statement of evaluate
model_eval(n) == [n EXCEPT !.training = FALSE]

InitTrain ==
  /\ EncodeIdle
  /\ SweepIdle
  /\ LoadIdle
  /\ StdIdle
  /\ RunsIdle
  /\ ServeIdle
  /\ SplitIdle
  /\ EmbedIdle
  /\ tr_pc = "init"
  /\ tr_error = ""
  /\ cfg \in Configs
  /\ env \in Envs
  /\ epoch = 0
  /\ batch = 0
  /\ net = NoNet
  /\ opt = NoOpt
  /\ sched = NoSched
  /\ metrics = NoMetrics
  /\ saved = <<>>
  /\ tr_warnings = {}
  /\ epochs_run = <<>>
  /\ last_batch = NoBatch
  /\ finite_seen = FALSE
  /\ failed_epochs = {}
  /\ lr_log = <<>>
  /\ tr_work = {}

\* lines 82-94: the dataset is loaded and split, and the partitions are
\* standardized when the config asks for it
TrainPrepare ==
  /\ tr_pc = "init"
  /\ tr_work' = IF cfg.use_input_standardization
                  THEN {"split_dataset", "standardize_features"}
                  ELSE {"split_dataset"}
  /\ tr_pc' = "model"
  /\ UNCHANGED <<tr_error, cfg, env, epoch, batch, net, opt, sched, metrics,
                 saved, tr_warnings, epochs_run, last_batch, finite_seen,
                 failed_epochs, lr_log, notTrainVars>>

\* lines 97-133: device, model, dimension check, run directory, loaders,
\* optimizer, scheduler
TrainInit ==
  /\ tr_pc = "model"
  /\ IF env.input_dim # INPUT_DIM
       THEN /\ tr_pc' = "raised"
            /\ tr_error' = "ValueError"
            /\ UNCHANGED <<net, opt, sched>>
       ELSE /\ tr_pc' = "loop"
            /\ tr_error' = tr_error
            /\ net' = [version |-> 0, nan |-> FALSE, training |-> TRUE]
            /\ opt' = [steps |-> 0, nan |-> FALSE, lr |-> cfg.lr]
            /\ sched' = [best |-> None, num_bad_epochs |-> 0]
  /\ UNCHANGED <<cfg, env, epoch, batch, metrics, saved, tr_warnings,
                 epochs_run, last_batch, finite_seen, failed_epochs, lr_log,
                 tr_work, notTrainVars>>

\* lines 137-140: for epoch in range(1, cfg.epochs + 1): model.train()
TrainLoopHead ==
  /\ tr_pc = "loop"
  /\ IF epoch < cfg.epochs
       THEN /\ epoch' = epoch + 1
            /\ epochs_run' = Append(epochs_run, epoch + 1)
            /\ net' = model_train(net)
            /\ batch' = 0
            /\ finite_seen' = FALSE
            /\ tr_pc' = "batch"
       ELSE /\ tr_pc' = "final_eval"
            /\ UNCHANGED <<epoch, epochs_run, net, batch, finite_seen>>
  /\ UNCHANGED <<tr_error, cfg, env, opt, sched, metrics, saved, tr_warnings,
                 last_batch, failed_epochs, lr_log, tr_work, notTrainVars>>

\* lines 142-153, one batch: zero_grad, forward, loss, backward, step.  The
\* loss is finite or not (NaN parameters give a NaN loss); nothing tests it,
\* so the step is taken with the gradients of a non-finite loss too, and
\* Adam then writes NaN into its moments and into the parameters
TrainBatch ==
  /\ tr_pc = "batch"
  /\ \E finite \in BOOLEAN :
       /\ net.nan => ~finite
       /\ net' = [net EXCEPT !.version = @ + 1, !.nan = @ \/ ~finite]
       /\ opt' = [opt EXCEPT !.steps = @ + 1, !.nan = @ \/ ~finite]
       /\ last_batch' = [done |-> TRUE, finite |-> finite, net |-> net,
                         opt |-> opt]
       /\ finite_seen' = (finite_seen \/ finite)
       /\ batch' = batch + 1
       /\ IF batch + 1 = env.n_batches
            THEN /\ tr_pc' = "evaluate"
                 /\ failed_epochs' =
                      IF finite_seen \/ finite THEN failed_epochs
                      ELSE failed_epochs \cup {epoch}
            ELSE /\ tr_pc' = "batch"
                 /\ failed_epochs' = failed_epochs
  /\ UNCHANGED <<tr_error, cfg, env, epoch, sched, metrics, saved,
                 tr_warnings, epochs_run, lr_log, tr_work, notTrainVars>>

\* lines 156-157: evaluate on the training loader, then on the test loader
TrainEvaluate ==
  /\ tr_pc = "evaluate"
  /\ net' = model_eval(net)
  /\ \E r \in evaluate(net, env.test_rows) :
       IF r.err # ""
         THEN /\ tr_pc' = "raised"
              /\ tr_error' = r.err
              /\ metrics' = metrics
         ELSE /\ tr_pc' = "schedule"
              /\ tr_error' = tr_error
              /\ metrics' = r.vec
  /\ UNCHANGED <<cfg, env, epoch, batch, opt, sched, saved, tr_warnings,
                 epochs_run, last_batch, finite_seen, failed_epochs, lr_log,
                 tr_work, notTrainVars>>

\* lines 158-168: scheduler.step(test_rmse), the epoch's line of output
TrainSchedulerStep ==
  /\ tr_pc = "schedule"
  /\ LET r == scheduler_step(sched, opt.lr, metrics.rmse, cfg)
     IN /\ sched' = r.sched
        /\ opt' = [opt EXCEPT !.lr = r.lr]
        /\ lr_log' = Append(lr_log, [rmse |-> metrics.rmse, before |-> opt.lr,
                                     after |-> r.lr])
  /\ tr_pc' = "save_epoch"
  /\ UNCHANGED <<tr_error, cfg, env, epoch, batch, net, metrics, saved,
                 tr_warnings, epochs_run, last_batch, finite_seen,
                 failed_epochs, tr_work, notTrainVars>>

\* lines 171-172: torch.save(model.state_dict(), epoch_path)
TrainSaveEpoch ==
  /\ tr_pc = "save_epoch"
  /\ saved' = Append(saved, [path |-> EpochPath(epoch, metrics.mae),
                             keys |-> {}, metric_keys |-> {},
                             model_state |-> state_dict(net)])
  /\ tr_pc' = "loop"
  /\ UNCHANGED <<tr_error, cfg, env, epoch, batch, net, opt, sched, metrics,
                 tr_warnings, epochs_run, last_batch, finite_seen,
                 failed_epochs, lr_log, tr_work, notTrainVars>>

\* lines 175-176: the final evaluation
TrainFinalEvaluate ==
  /\ tr_pc = "final_eval"
  /\ net' = model_eval(net)
  /\ \E r \in evaluate(net, env.test_rows) :
       IF r.err # ""
         THEN /\ tr_pc' = "raised"
              /\ tr_error' = r.err
              /\ metrics' = metrics
         ELSE /\ tr_pc' = "save_final"
              /\ tr_error' = tr_error
              /\ metrics' = r.vec
  /\ UNCHANGED <<cfg, env, epoch, batch, opt, sched, saved, tr_warnings,
                 epochs_run, last_batch, finite_seen, failed_epochs, lr_log,
                 tr_work, notTrainVars>>

\* lines 179-202: torch.save of the final bundle
TrainSaveFinal ==
  /\ tr_pc = "save_final"
  /\ saved' = Append(saved, [path |-> FinalPath, keys |-> FinalKeys,
                             metric_keys |-> MetricKeys,
                             model_state |-> state_dict(net)])
  /\ tr_pc' = "done"
  /\ UNCHANGED <<tr_error, cfg, env, epoch, batch, net, opt, sched, metrics,
                 tr_warnings, epochs_run, last_batch, finite_seen,
                 failed_epochs, lr_log, tr_work, notTrainVars>>

NextTrain ==
  \/ TrainPrepare
  \/ TrainInit
  \/ TrainLoopHead
  \/ TrainBatch
  \/ TrainEvaluate
  \/ TrainSchedulerStep
  \/ TrainSaveEpoch
  \/ TrainFinalEvaluate
  \/ TrainSaveFinal

SpecTrain == InitTrain /\ [][NextTrain]_vars


-----------------------------------------------------------------------------
(* Properties of one training run (SpecTrain) *)

PassedInit == tr_pc \notin {"init", "model"} /\ tr_error # "ValueError"

Finalizing == tr_pc \in {"final_eval", "save_final"}

EpochEnded(k) ==
  \E i \in 1..Len(saved) : saved[i].path.kind = "epoch"
                           /\ saved[i].path.epoch = Format03d(k)

\* C15: a run that has passed initialization runs the epochs 1..cfg.epochs
\* once each in increasing order, skipping none, enters Finalizing only
\* after epoch cfg.epochs has ended, is Done only with the final checkpoint
\* written, and never ends otherwise than in Done.
C15_PhasesInOrder ==
  PassedInit =>
    /\ tr_pc # "raised"
    /\ Len(epochs_run) <= cfg.epochs
    /\ \A i \in 1..Len(epochs_run) : epochs_run[i] = i
    /\ (Finalizing \/ tr_pc = "done") =>
         /\ Len(epochs_run) = cfg.epochs
         /\ \A k \in 1..cfg.epochs : EpochEnded(k)
    /\ tr_pc = "done" => saved[Len(saved)].path = FinalPath

\* C16: a batch with a non-finite loss leaves the parameters and the
\* optimizer state as they were, and a NonFiniteLoss warning is surfaced.
C16_NonFiniteBatchSkipped ==
  (last_batch.done /\ ~last_batch.finite) =>
    /\ state_dict(net) = state_dict(last_batch.net)
    /\ opt = last_batch.opt
    /\ "NonFiniteLoss" \in tr_warnings

\* C17: once every batch of an epoch had a non-finite loss, the run ends
\* with an error at that epoch: no later epoch is begun and no final
\* checkpoint is written.
C17_AllNonFiniteEpochIsFatal ==
  \A k \in failed_epochs :
    /\ epoch = k
    /\ tr_pc \notin {"final_eval", "save_final", "done"}
    /\ \A i \in 1..Len(saved) : saved[i].path # FinalPath


\* test RMSE of epoch k is below every earlier one (NaN never is)
Improved(k) ==
  /\ ~lr_log[k].rmse.nan
  /\ \A i \in 1..(k - 1) :
       lr_log[i].rmse.nan \/ RatLess(lr_log[k].rmse.q, lr_log[i].rmse.q)

LrChanged(k) == lr_log[k].after # lr_log[k].before

\* the consecutive epochs without improvement up to epoch k, counted from
\* the last improvement or the last epoch at which the patience was exceeded
RECURSIVE Streak(_)
Streak(k) ==
  IF k = 0 THEN 0
  ELSE IF Improved(k) THEN 0
  ELSE (IF Streak(k - 1) > cfg.plateau_patience THEN 0 ELSE Streak(k - 1)) + 1

-----------------------------------------------------------------------------
(* Several runs of train.train on one file system, at the grain of their   *)
(* file-system calls: the run directory (train.py:104-107), the epoch      *)
(* checkpoints (train.py:170-172) and final.pt (train.py:178-201).  The    *)
(* runs are processes of their own and interleave; the clock, counted in   *)
(* half seconds, advances between any two steps or not at all.             *)

MaxClock == 2

TicksPerSecond == 2

MaxRunEpochs == 1

\* ts = datetime.now(timezone.utc).strftime("%Y%m%d-%H%M%S"): the time cut
\* to the whole second
strftime(t) == t \div TicksPerSecond

\* torch.save(obj, path): the file is opened for writing, which creates it
\* or replaces what it held
torch_save(d, f) ==
  {g \in d : ~(g.dir = f.dir /\ g.path = f.path)} \cup {f}

Exists(d, dir, path) == \E g \in d : g.dir = dir /\ g.path = path

LogWrite(r, f) ==
  Append(fs_log, [run |-> r, dir |-> f.dir, path |-> f.path,
                  replaced |-> Exists(disk, f.dir, f.path)])

InitRuns ==
  /\ EncodeIdle
  /\ SweepIdle
  /\ LoadIdle
  /\ StdIdle
  /\ TrainIdle
  /\ ServeIdle
  /\ SplitIdle
  /\ EmbedIdle
  /\ clock = 0
  /\ dirs = {}
  /\ disk = {}
  /\ fs_log = <<>>
  /\ runs \in [RunIds -> {[pc |-> "init", ts |-> 0, epochs |-> e, epoch |-> 0,
                           maes |-> <<>>] : e \in 0..MaxRunEpochs}]

\* half a second passes
Tick ==
  /\ clock < MaxClock
  /\ clock' = clock + 1
  /\ UNCHANGED <<dirs, disk, fs_log, runs, notRunsVars>>

\* lines 82-107 of run r: ts from the clock, run_dir = checkpoints/run-<ts>,
\* mkdir(parents=True, exist_ok=True), which accepts an existing directory
RunMkdir(r) ==
  /\ runs[r].pc = "init"
  /\ runs' = [runs EXCEPT ![r].pc = "loop", ![r].ts = strftime(clock)]
  /\ dirs' = dirs \cup {strftime(clock)}
  /\ UNCHANGED <<clock, disk, fs_log, notRunsVars>>

\* lines 137-172 of run r, one iteration: the batches, the evaluation, the
\* scheduler step and torch.save(model.state_dict(), epoch_path)
RunEpoch(r) ==
  /\ runs[r].pc = "loop"
  /\ runs[r].epoch < runs[r].epochs
  /\ \E m \in FiniteMetrics :
       LET k == runs[r].epoch + 1
           f == [dir |-> runs[r].ts, path |-> EpochPath(k, m.mae),
                 writer |-> r, keys |-> {}, metric_keys |-> {}]
       IN /\ disk' = torch_save(disk, f)
          /\ fs_log' = LogWrite(r, f)
          /\ runs' = [runs EXCEPT ![r].epoch = k,
                                  ![r].maes = Append(@, Format6f(m.mae))]
  /\ UNCHANGED <<clock, dirs, notRunsVars>>

\* lines 175-202 of run r: the final evaluation and torch.save of final.pt
RunFinal(r) ==
  /\ runs[r].pc = "loop"
  /\ runs[r].epoch = runs[r].epochs
  /\ LET f == [dir |-> runs[r].ts, path |-> FinalPath, writer |-> r,
               keys |-> FinalKeys, metric_keys |-> MetricKeys]
     IN /\ disk' = torch_save(disk, f)
        /\ fs_log' = LogWrite(r, f)
  /\ runs' = [runs EXCEPT ![r].pc = "done"]
  /\ UNCHANGED <<clock, dirs, notRunsVars>>

NextRuns ==
  \/ Tick
  \/ \E r \in RunIds : RunMkdir(r)
  \/ \E r \in RunIds : RunEpoch(r)
  \/ \E r \in RunIds : RunFinal(r)

SpecRuns == InitRuns /\ [][NextRuns]_vars

-----------------------------------------------------------------------------
(* Properties of the checkpoint files (SpecRuns) *)

FilesOf(r) == {f \in disk : f.dir = runs[r].ts}

\* C19: once a run with E = cfg.epochs is completed, its run directory
\* holds exactly E epoch checkpoints, one per epoch k in 1..E under the name
\* that embeds k and the test MAE of epoch k, and exactly one final.pt with
\* the keys model_state, optimizer_state, config, input_dim, metrics (the
\* four of them), timestamp_utc and input_scaler.
C19_RunDirectoryContent ==
  \A r \in RunIds :
    runs[r].pc = "done" =>
      /\ Cardinality({f \in FilesOf(r) : f.path.kind = "epoch"}) = runs[r].epochs
      /\ \A k \in 1..runs[r].epochs :
           Exists(disk, runs[r].ts,
                  [kind |-> "epoch", epoch |-> Format03d(k), mae |-> runs[r].maes[k]])
      /\ \E f \in FilesOf(r) :
           /\ f.path = FinalPath
           /\ f.keys = FinalKeys
           /\ f.metric_keys = MetricKeys

\* C20: no torch.save of any run replaces a checkpoint file that was
\* written before, and no file that was written ever disappears.
C20_AppendOnly ==
  /\ \A i \in 1..Len(fs_log) : ~fs_log[i].replaced
  /\ \A i \in 1..Len(fs_log) : Exists(disk, fs_log[i].dir, fs_log[i].path)


\* C21: any two runs have distinct run directories, also when they start
\* in the same clock second, and no two runs ever write into the same
\* directory.
C21_RunDirsDistinct ==
  /\ \A r1 \in RunIds, r2 \in RunIds :
       (r1 # r2 /\ runs[r1].pc # "init" /\ runs[r2].pc # "init")
         => runs[r1].ts # runs[r2].ts
  /\ \A i \in 1..Len(fs_log), j \in 1..Len(fs_log) :
       fs_log[i].dir = fs_log[j].dir => fs_log[i].run = fs_log[j].run


-----------------------------------------------------------------------------
(* A run of train.train writing its run directory (train.py:137-201) while *)
(* runner.run resolves a checkpoint in it and loads it (runner.py:20-59).  *)
(* A saved object is a dict, a sequence of <<key, value>> pairs; a value   *)
(* is [kind, data] with data a sequence of integers.  A file holds the     *)
(* pairs written so far; the archive's end record comes last.              *)

Val(k, d) == [kind |-> k, data |-> d]

EndRecord == <<"end of archive", Val("eof", <<>>)>>

HasKey(d, k) == \E i \in 1..Len(d) : d[i][1] = k

Get(d, k) == d[CHOOSE i \in 1..Len(d) : d[i][1] = k][2]

\* the parameter names of ForecastNet
ParamNames == <<"net.weight">>

\* model.state_dict(): every parameter under its name
model_state_dict(params) ==
  [i \in 1..Len(ParamNames) |-> <<ParamNames[i], Val("tensor", <<params>>)>>]

\* asdict(cfg)
asdict(c) ==
  Val("dict", <<c.epochs, IF c.use_input_standardization THEN 1 ELSE 0>>)

\* the training statistics, known by an identifier: mean 1, std 2; None is 0
TrainMean == 1

TrainStd == 2

\* the bundle with the parameters the model had before training
final_bundle_stale(params, c, m) ==
  <<<<"model_state", Val("state_dict", <<0>>)>>,
    <<"optimizer_state", Val("state_dict", <<params>>)>>,
    <<"config", asdict(c)>>,
    <<"input_dim", Val("int", <<INPUT_DIM>>)>>,
    <<"metrics", Val("dict", <<m, m, m, m>>)>>,
    <<"timestamp_utc", Val("str", <<0>>)>>,
    <<"input_scaler",
      IF c.use_input_standardization THEN Val("dict", <<TrainMean, TrainStd>>)
      ELSE Val("dict", <<0, 0>>)>>>>

\* train.py:181-199: the dict saved as final.pt
final_bundle(params, c, m) ==
  <<<<"model_state", Val("state_dict", <<params>>)>>,
    <<"optimizer_state", Val("state_dict", <<params>>)>>,
    <<"config", asdict(c)>>,
    <<"input_dim", Val("int", <<INPUT_DIM>>)>>,
    <<"metrics", Val("dict", <<m, m, m, m>>)>>,
    <<"timestamp_utc", Val("str", <<0>>)>>,
    <<"input_scaler",
      IF c.use_input_standardization THEN Val("dict", <<TrainMean, TrainStd>>)
      ELSE Val("dict", <<0, 0>>)>>>>

\* what torch.save writes for an object: its entries, then the end record
Serialize(obj) == Append(obj, EndRecord)

\* torch.load: the archive is read from its end record, so a file without
\* it is rejected (by the restricted and by the unrestricted load alike)
torch_load(bytes) ==
  IF Len(bytes) > 0 /\ bytes[Len(bytes)] = EndRecord
    THEN Returned(SubSeq(bytes, 1, Len(bytes) - 1))
    ELSE Raised("RuntimeError")

Opt(id) == IF id = 0 THEN None ELSE Some(id)

\* the blob as _load_model_and_scaler tells it apart (runner.py:46-56)
BlobView(b) ==
  IF HasKey(b, "model_state")
    THEN [shape |-> "rich",
          scaler |-> [kind |-> "dict",
                      mean |-> Opt(Get(b, "input_scaler").data[1]),
                      std |-> Opt(Get(b, "input_scaler").data[2])]]
    ELSE [shape |-> "raw", scaler |-> NoBlob.scaler]

\* model.load_state_dict(sd), strict: the keys must be the parameter names
load_state_dict(sd) ==
  IF Len(sd) = Len(ParamNames) /\ \A i \in 1..Len(sd) : sd[i][1] = ParamNames[i]
    THEN Returned(sd[1][2].data[1])
    ELSE Raised("RuntimeError")

\* _load_model_and_scaler on the bytes of the file (runner.py:34-59)
load_model_and_scaler(bytes) ==
  LET l == torch_load(bytes)
  IN IF l.err # "" THEN [err |-> l.err, blob |-> <<>>, params |-> 0,
                         stats |-> [input_mean |-> None, input_std |-> None]]
     ELSE LET b == l.vec
              v == BlobView(b)
              sd == IF v.shape = "rich"
                      THEN model_state_dict(Get(b, "model_state").data[1])
                      ELSE b
              m == load_state_dict(sd)
          IN IF m.err # ""
               THEN [err |-> m.err, blob |-> b, params |-> 0,
                     stats |-> [input_mean |-> None, input_std |-> None]]
               ELSE [err |-> "", blob |-> b, params |-> m.vec,
                     stats |-> scaler_stats(v)]

\* run_dir / f"epoch_{epoch:03d}_{test_mae:.6f}.pt" for the epochs of the run
EpochFileName(k) == IF k = 1 THEN "epoch_001_0.50.pt" ELSE "epoch_002_0.40.pt"

\* the object torch.save is given: the state dict for an epoch file, the
\* bundle for final.pt
SavedObject(target) ==
  IF target = "final.pt" THEN final_bundle(sv_net, sv_cfg, sv_metrics)
  ELSE model_state_dict(sv_net)

InitServe ==
  /\ EncodeIdle
  /\ SweepIdle
  /\ LoadIdle
  /\ StdIdle
  /\ TrainIdle
  /\ RunsIdle
  /\ SplitIdle
  /\ EmbedIdle
  /\ sv_pc = "loop"
  /\ sv_cfg \in [epochs : 0..Cardinality(EpochNames),
                 use_input_standardization : BOOLEAN]
  /\ sv_epoch = 0
  /\ sv_net = 0
  /\ sv_target = ""
  /\ sv_metrics = 0
  /\ sv_dir = [n \in FileNames |-> 0]
  /\ sv_files = [n \in FileNames |-> <<>>]
  /\ rd_pc = "resolve"
  /\ rd_ckpt = [err |-> "", path |-> ""]
  /\ rd_seen = [complete |-> TRUE, fatal |-> FALSE]
  /\ rd_blob = <<>>
  /\ rd_model = [params |-> 0, training |-> TRUE]
  /\ rd_ret = [input_mean |-> None, input_std |-> None]

\* train.py:137-171: one epoch up to its epoch_path
ServeEpoch ==
  /\ sv_pc = "loop"
  /\ sv_epoch < sv_cfg.epochs
  /\ sv_epoch' = sv_epoch + 1
  /\ sv_net' = sv_epoch + 1
  /\ sv_target' = EpochFileName(sv_epoch + 1)
  /\ sv_pc' = "open"
  /\ UNCHANGED <<sv_cfg, sv_metrics, sv_dir, sv_files, rd_pc, rd_ckpt, rd_seen,
                 rd_blob, rd_model, rd_ret, notServeVars>>

\* train.py:175-179: the final evaluation and ckpt_path
ServeFinalEval ==
  /\ sv_pc = "loop"
  /\ sv_epoch = sv_cfg.epochs
  /\ \E m \in {1, 2} : sv_metrics' = m
  /\ sv_target' = "final.pt"
  /\ sv_pc' = "open"
  /\ UNCHANGED <<sv_cfg, sv_epoch, sv_net, sv_dir, sv_files, rd_pc, rd_ckpt,
                 rd_seen, rd_blob, rd_model, rd_ret, notServeVars>>

\* torch.save (train.py:172, 180), its first half: the path is opened for
\* writing, so the file exists and is empty
ServeSaveOpen ==
  /\ sv_pc = "open"
  /\ sv_files' = [sv_files EXCEPT ![sv_target] = <<>>]
  /\ sv_dir' = [sv_dir EXCEPT ![sv_target] =
                  IF sv_target = "final.pt" THEN MaxMtime ELSE sv_epoch]
  /\ sv_pc' = "writing"
  /\ UNCHANGED <<sv_cfg, sv_epoch, sv_net, sv_target, sv_metrics, rd_pc,
                 rd_ckpt, rd_seen, rd_blob, rd_model, rd_ret, notServeVars>>

\* torch.save, its second half: the archive is written and closed
ServeSaveWrite ==
  /\ sv_pc = "writing"
  /\ sv_files' = [sv_files EXCEPT ![sv_target] = Serialize(SavedObject(sv_target))]
  /\ sv_pc' = IF sv_target = "final.pt" THEN "done" ELSE "loop"
  /\ UNCHANGED <<sv_cfg, sv_epoch, sv_net, sv_target, sv_metrics, sv_dir,
                 rd_pc, rd_ckpt, rd_seen, rd_blob, rd_model, rd_ret,
                 notServeVars>>

\* torch.save raising while it writes (OSError, no space left): the file
\* keeps what was written, and the exception ends the run
ServeSaveFails ==
  /\ sv_pc = "writing"
  /\ sv_files' = [sv_files EXCEPT ![sv_target] =
                    SubSeq(Serialize(SavedObject(sv_target)), 1, 1)]
  /\ sv_pc' = "raised"
  /\ UNCHANGED <<sv_cfg, sv_epoch, sv_net, sv_target, sv_metrics, sv_dir,
                 rd_pc, rd_ckpt, rd_seen, rd_blob, rd_model, rd_ret,
                 notServeVars>>

\* run: ckpt_path = _resolve_checkpoint(model_path) on the run directory
ReadResolve ==
  /\ rd_pc = "resolve"
  /\ \E r \in _resolve_checkpoint("dir", sv_dir) :
       /\ rd_ckpt' = r
       /\ rd_pc' = IF r.err = "" THEN "load" ELSE "raised"
       /\ rd_seen' = IF r.err # "" THEN rd_seen
                     ELSE [complete |-> torch_load(sv_files[r.path]).err = "",
                           fatal |-> sv_pc = "raised"]
  /\ UNCHANGED <<sv_pc, sv_cfg, sv_epoch, sv_net, sv_target, sv_metrics,
                 sv_dir, sv_files, rd_blob, rd_model, rd_ret, notServeVars>>

\* run: _load_model_and_scaler(ckpt_path, device) on what the file holds now
ReadLoad ==
  /\ rd_pc = "load"
  /\ LET r == load_model_and_scaler(sv_files[rd_ckpt.path])
     IN IF r.err # ""
          THEN /\ rd_pc' = "raised"
               /\ UNCHANGED <<rd_blob, rd_model, rd_ret>>
          ELSE /\ rd_pc' = "returned"
               /\ rd_blob' = r.blob
               /\ rd_model' = [params |-> r.params, training |-> FALSE]
               /\ rd_ret' = r.stats
  /\ UNCHANGED <<sv_pc, sv_cfg, sv_epoch, sv_net, sv_target, sv_metrics,
                 sv_dir, sv_files, rd_ckpt, rd_seen, notServeVars>>

NextServe ==
  \/ ServeEpoch
  \/ ServeFinalEval
  \/ ServeSaveOpen
  \/ ServeSaveWrite
  \/ ServeSaveFails
  \/ ReadResolve
  \/ ReadLoad

SpecServe == InitServe /\ [][NextServe]_vars

-----------------------------------------------------------------------------
(* Properties of checkpoints read while or after they are written          *)
(* (SpecServe)                                                             *)

\* C22: every path _resolve_checkpoint returns names a file that, at that
\* moment, is written completely and was not left by a run that ended with
\* an error.
C22_ResolvedIsComplete ==
  (rd_pc # "resolve" /\ rd_ckpt.err = "") =>
    /\ rd_seen.complete
    /\ ~rd_seen.fatal

\* C24: loading the completed final.pt gives a model with the parameters
\* of the trained model, in evaluation mode, and a bundle whose metrics and
\* config are those that were saved.
C24_FinalRoundTrip ==
  (rd_pc = "returned" /\ rd_ckpt.path = "final.pt") =>
    /\ sv_pc = "done"
    /\ rd_model.params = sv_net
    /\ ~rd_model.training
    /\ Get(rd_blob, "metrics") = Val("dict", <<sv_metrics, sv_metrics, sv_metrics, sv_metrics>>)
    /\ Get(rd_blob, "config") = asdict(sv_cfg)
    /\ rd_blob = final_bundle(sv_net, sv_cfg, sv_metrics)

C24_Witness ==
  /\ rd_pc = "returned"
  /\ rd_ckpt.path = "final.pt"
  /\ sv_cfg.epochs = 2
  /\ rd_model.params = 2
  /\ sv_metrics = 2

\* C28: for a run trained with standardization, every checkpoint resolved
\* in its directory and loaded makes the loader return the training mean
\* and std.
C28_EveryCheckpointHasScaler ==
  (sv_cfg.use_input_standardization /\ rd_pc = "returned") =>
    rd_ret = [input_mean |-> Some(TrainMean), input_std |-> Some(TrainStd)]


-----------------------------------------------------------------------------
(* split_dataset (train.py:29-36): a seeded random split into a training   *)
(* and a test partition.  torch.randperm is a fixed function of n and the  *)
(* state of the generator it is given; which permutation it gives is not    *)
(* known to the model, so sp_rng fixes it at the first draw per (n, state). *)

MaxSplitRows == 3

Seeds == {1337, 7}

\* test ratios whose product with a small n is exact in floating point
Ratios == {Frac(0, 1), Frac(1, 5), Frac(1, 2), Frac(3, 4), Frac(1, 1)}

\* the datasets: row i of content c is input <<"x", c, i>>, target <<"y", c, i>>
Contents == {0, 1}

DatasetInput(n, c) == [i \in 1..n |-> <<"x", c, i>>]

DatasetOutput(n, c) == [i \in 1..n |-> <<"y", c, i>>]

Perms(n) ==
  {p \in [1..n -> 1..n] : \A i \in 1..n, j \in 1..n : p[i] = p[j] => i = j}

Unset == <<0>>

\* the generator state: <<seed, draws since seeding>>
GenStates == Seeds \X (0..1)

\* the process-wide generator, never reseeded: its state moves with each draw
generator_global(seed, draws) == <<1337, IF draws = 0 THEN 0 ELSE 1>>

\* g = torch.Generator().manual_seed(seed): a fresh generator per call
generator(seed, draws) == <<seed, 0>>

\* int(q) for a float q: truncation toward zero
int(q) == IF q[1] >= 0 THEN q[1] \div q[2] ELSE -((-q[1]) \div q[2])

\* t[idx] for an index tensor idx
Index(t, idx) == [j \in 1..Len(idx) |-> t[idx[j]]]

\* the training indices are not cut off the permutation
split_dataset_overlap(input, output, test_ratio, perm) ==
  LET n == Len(input)
      num_test == int(RatMul(Rat(n), test_ratio))
      test_idx == SubSeq(perm, 1, IF num_test < n THEN num_test ELSE n)
      train_idx == perm
  IN [x_train |-> Index(input, train_idx), y_train |-> Index(output, train_idx),
      x_test |-> Index(input, test_idx), y_test |-> Index(output, test_idx),
      train_idx |-> train_idx, test_idx |-> test_idx]

\* perm is what torch.randperm(n, generator=g) gave
split_dataset(input, output, test_ratio, perm) ==
  LET n == Len(input)
      num_test == int(RatMul(Rat(n), test_ratio))
      test_idx == SubSeq(perm, 1, IF num_test < n THEN num_test ELSE n)
      train_idx == SubSeq(perm, (IF num_test < n THEN num_test ELSE n) + 1, n)
  IN [x_train |-> Index(input, train_idx), y_train |-> Index(output, train_idx),
      x_test |-> Index(input, test_idx), y_test |-> Index(output, test_idx),
      train_idx |-> train_idx, test_idx |-> test_idx]

InitSplit ==
  /\ EncodeIdle
  /\ SweepIdle
  /\ LoadIdle
  /\ StdIdle
  /\ TrainIdle
  /\ RunsIdle
  /\ ServeIdle
  /\ EmbedIdle
  /\ sp_calls = <<>>
  /\ sp_rng = [k \in (0..MaxSplitRows) \X GenStates |-> Unset]
  /\ sp_draws = 0

\* one call split_dataset(input, output, cfg.test_ratio, cfg.seed)
SplitCall ==
  /\ Len(sp_calls) < 2
  /\ \E n \in 0..MaxSplitRows, c \in Contents, r \in Ratios, s \in Seeds :
       LET key == <<n, generator(s, sp_draws)>>
       IN \E p \in Perms(n) :
            /\ sp_rng[key] \in {Unset, p}
            /\ sp_rng' = [sp_rng EXCEPT ![key] = p]
            /\ sp_calls' = Append(sp_calls,
                 [n |-> n, content |-> c, test_ratio |-> r, seed |-> s,
                  ret |-> split_dataset(DatasetInput(n, c), DatasetOutput(n, c), r, p)])
  /\ sp_draws' = sp_draws + 1
  /\ UNCHANGED notSplitVars

NextSplit == SplitCall

SpecSplit == InitSplit /\ [][NextSplit]_vars

-----------------------------------------------------------------------------
(* Properties of split_dataset (SpecSplit)                                 *)

\* C23: two calls with the same input size, test_ratio and seed give the
\* same training and test indices in the same order, whatever the rows hold.
C23_SplitDeterministic ==
  \A i \in 1..Len(sp_calls), j \in 1..Len(sp_calls) :
    (/\ sp_calls[i].n = sp_calls[j].n
     /\ sp_calls[i].test_ratio = sp_calls[j].test_ratio
     /\ sp_calls[i].seed = sp_calls[j].seed)
      => /\ sp_calls[i].ret.train_idx = sp_calls[j].ret.train_idx
         /\ sp_calls[i].ret.test_idx = sp_calls[j].ret.test_idx

C23_Witness ==
  /\ Len(sp_calls) = 2
  /\ sp_calls[1].n = 3 /\ sp_calls[2].n = 3
  /\ sp_calls[1].seed = sp_calls[2].seed
  /\ sp_calls[1].test_ratio = Frac(1, 2) /\ sp_calls[2].test_ratio = Frac(1, 2)
  /\ sp_calls[1].content # sp_calls[2].content
  /\ sp_calls[1].ret.test_idx = <<3>>
  /\ sp_calls[2].ret.train_idx = <<1, 2>>

Range(f) == {f[i] : i \in 1..Len(f)}

\* C29: the result is a partition of the rows: the test part has
\* floor(n * test_ratio) rows, the training part the others, no row is in
\* both or in neither, and every input row comes with its own target row.
C29_SplitIsPartition ==
  \A i \in 1..Len(sp_calls) :
    LET c == sp_calls[i]
        k == CHOOSE m \in 0..c.n :
               /\ m * c.test_ratio[2] <= c.n * c.test_ratio[1]
               /\ c.n * c.test_ratio[1] < (m + 1) * c.test_ratio[2]
    IN /\ Len(c.ret.x_test) = k /\ Len(c.ret.y_test) = k
       /\ Len(c.ret.x_train) = c.n - k /\ Len(c.ret.y_train) = c.n - k
       /\ Range(c.ret.train_idx) \cap Range(c.ret.test_idx) = {}
       /\ Range(c.ret.train_idx) \cup Range(c.ret.test_idx) = 1..c.n
       /\ Range(c.ret.x_train) \cup Range(c.ret.x_test) = Range(DatasetInput(c.n, c.content))
       /\ \A j \in 1..Len(c.ret.x_train) : c.ret.x_train[j][3] = c.ret.y_train[j][3]
       /\ \A j \in 1..Len(c.ret.x_test) : c.ret.x_test[j][3] = c.ret.y_test[j][3]

C29_Witness ==
  \E i \in 1..Len(sp_calls) :
    /\ sp_calls[i].n = 3
    /\ sp_calls[i].test_ratio = Frac(3, 4)
    /\ Len(sp_calls[i].ret.x_test) = 2
    /\ sp_calls[i].ret.y_train = <<<<"y", sp_calls[i].content, 2>>>>


-----------------------------------------------------------------------------
(* openai_embeddings_parallel (utils.py:61-72): the distinct texts are      *)
(* submitted to a thread pool, the worker threads run the lookups, and the  *)
(* calling thread merges the results as the futures complete.               *)

MaxTexts == 3

MaxWorkers == 2

TextNames == {"cola", "chips", "soap"}

TextLists == UNION {[1..n -> TextNames] : n \in 0..MaxTexts}

\* list(texts): every occurrence is kept
list_of(texts) == texts

\* list(dict.fromkeys(texts)): the first occurrence of each text, in order
dict_fromkeys(texts) ==
  LET first(i) == \A j \in 1..(i - 1) : texts[j] # texts[i]
      F[i \in 0..Len(texts)] ==
        IF i = 0 THEN <<>>
        ELSE IF first(i) THEN Append(F[i - 1], texts[i]) ELSE F[i - 1]
  IN F[Len(texts)]

InitEmbed ==
  /\ EncodeIdle
  /\ SweepIdle
  /\ LoadIdle
  /\ StdIdle
  /\ TrainIdle
  /\ RunsIdle
  /\ ServeIdle
  /\ SplitIdle
  /\ em_pc = "start"
  /\ em_texts \in TextLists
  /\ em_max_workers \in 1..MaxWorkers
  /\ em_unique = <<>>
  /\ em_futures = <<>>
  /\ em_queue = <<>>
  /\ em_running = {}
  /\ em_done = <<>>
  /\ em_collected = 0
  /\ em_results = <<>>

\* utils.py:64-66: unique_texts and the empty results
EmbedStart ==
  /\ em_pc = "start"
  /\ em_unique' = dict_fromkeys(em_texts)
  /\ em_pc' = "submit"
  /\ UNCHANGED <<em_texts, em_max_workers, em_futures, em_queue, em_running,
                 em_done, em_collected, em_results, notEmbedVars>>

\* utils.py:67: ex.submit(openai_embedding, t, dimensions) for the next text
EmbedSubmit ==
  /\ em_pc = "submit"
  /\ Len(em_futures) < Len(em_unique)
  /\ em_futures' = Append(em_futures, em_unique[Len(em_futures) + 1])
  /\ em_queue' = Append(em_queue, Len(em_futures) + 1)
  /\ UNCHANGED <<em_pc, em_texts, em_max_workers, em_unique, em_running,
                 em_done, em_collected, em_results, notEmbedVars>>

\* utils.py:67-68: the dict of futures is complete, the loop over
\* as_completed(futures) begins
EmbedSubmitted ==
  /\ em_pc = "submit"
  /\ Len(em_futures) = Len(em_unique)
  /\ em_pc' = "collect"
  /\ UNCHANGED <<em_texts, em_max_workers, em_unique, em_futures, em_queue,
                 em_running, em_done, em_collected, em_results, notEmbedVars>>

\* ThreadPoolExecutor(max_workers): a worker thread takes the oldest work
\* item; there are never more than max_workers threads
WorkerStart ==
  /\ em_queue # <<>>
  /\ Cardinality(em_running) < em_max_workers
  /\ em_running' = em_running \cup {Head(em_queue)}
  /\ em_queue' = Tail(em_queue)
  /\ UNCHANGED <<em_pc, em_texts, em_max_workers, em_unique, em_futures,
                 em_done, em_collected, em_results, notEmbedVars>>

\* openai_embedding(t, dimensions) returns or raises in its worker thread;
\* the embedding is named by the text and the serial number of the lookup
WorkerFinish ==
  \E f \in em_running, ok \in BOOLEAN :
    /\ em_running' = em_running \ {f}
    /\ em_done' = Append(em_done,
         [future |-> f, text |-> em_futures[f], ok |-> ok,
          emb |-> <<em_futures[f], Len(em_done) + 1>>])
    /\ UNCHANGED <<em_pc, em_texts, em_max_workers, em_unique, em_futures,
                   em_queue, em_collected, em_results, notEmbedVars>>

\* utils.py:68-71: as_completed hands out the next finished future;
\* fut.result() returns its embedding or raises its exception
EmbedCollect ==
  /\ em_pc = "collect"
  /\ em_collected < Len(em_done)
  /\ LET fut == em_done[em_collected + 1]
         t == em_futures[fut.future]
     IN IF fut.ok
          THEN /\ em_results' = DictSet(em_results, t, fut.emb)
               /\ em_pc' = "collect"
          ELSE /\ em_results' = em_results
               /\ em_pc' = "raising"
  /\ em_collected' = em_collected + 1
  /\ UNCHANGED <<em_texts, em_max_workers, em_unique, em_futures, em_queue,
                 em_running, em_done, notEmbedVars>>

\* utils.py:66, 72: leaving the with block waits for every work item
\* (shutdown(wait=True)); then the function returns results or the
\* exception goes on to the caller
EmbedShutdown ==
  /\ \/ em_pc = "collect" /\ em_collected = Len(em_futures)
     \/ em_pc = "raising"
  /\ em_queue = <<>>
  /\ em_running = {}
  /\ em_pc' = IF em_pc = "collect" THEN "returned" ELSE "raised"
  /\ UNCHANGED <<em_texts, em_max_workers, em_unique, em_futures, em_queue,
                 em_running, em_done, em_collected, em_results, notEmbedVars>>

NextEmbed ==
  \/ EmbedStart
  \/ EmbedSubmit
  \/ EmbedSubmitted
  \/ WorkerStart
  \/ WorkerFinish
  \/ EmbedCollect
  \/ EmbedShutdown

SpecEmbed == InitEmbed /\ [][NextEmbed]_vars

-----------------------------------------------------------------------------
(* Properties of openai_embeddings_parallel (SpecEmbed)                    *)

\* C26: every distinct text is submitted exactly once, however often it
\* occurs in texts; never more than max_workers lookups run at once; and
\* whatever the order in which the lookups finish, the mapping returned has
\* exactly the distinct texts as keys, each with the embedding its own
\* lookup returned.
C26_DedupBoundedMerge ==
  /\ \A i \in 1..Len(em_futures), j \in 1..Len(em_futures) :
       em_futures[i] = em_futures[j] => i = j
  /\ Range(em_futures) \subseteq Range(em_texts)
  /\ em_pc \in {"collect", "raising", "returned", "raised"}
       => Range(em_futures) = Range(em_texts)
  /\ Cardinality(em_running) <= em_max_workers
  /\ em_pc = "returned" =>
       /\ KeySet(em_results) = Range(em_texts)
       /\ \A i \in 1..Len(em_results) :
            \E k \in 1..Len(em_done) :
              /\ em_done[k].text = em_results[i][1]
              /\ em_done[k].ok
              /\ em_done[k].emb = em_results[i][2]
              /\ em_results[i][2][1] = em_results[i][1]

C26_Witness ==
  /\ em_pc = "returned"
  /\ em_texts = <<"cola", "chips", "cola">>
  /\ em_max_workers = 2
  /\ em_results = <<<<"chips", <<"chips", 1>>>>, <<"cola", <<"cola", 2>>>>>>


\* C25: a run that ends with the dimension error has computed nothing on
\* the features before: no split, no standardization, no model update, and
\* it has written no checkpoint.
C25_DimensionErrorBeforeCompute ==
  tr_error = "ValueError" =>
    /\ tr_work = {}
    /\ ~last_batch.done
    /\ opt = NoOpt
    /\ saved = <<>>

\* C27: the checkpoint of epoch k holds the parameters after all batches of
\* epoch k; it is written after the epoch's evaluation and scheduler step
\* and before the next epoch's first batch, never while batches are running.
C27_EpochCheckpointAtEpochEnd ==
  /\ \A i \in 1..Len(saved) :
       saved[i].path.kind = "epoch" =>
         /\ saved[i].path.epoch = Format03d(i)
         /\ saved[i].model_state.version = i * env.n_batches
         /\ i = epoch => saved[i].model_state = state_dict(net)
  /\ tr_pc \in {"batch", "evaluate", "schedule", "save_epoch"}
       => Len(saved) = epoch - 1
  /\ tr_pc = "loop" => Len(saved) = epoch
  /\ (last_batch.done /\ last_batch.net.version > 0) =>
       Len(saved) >= last_batch.net.version \div env.n_batches

C27_Witness ==
  /\ tr_pc = "batch"
  /\ epoch = 2
  /\ batch = 1
  /\ env.n_batches = 2
  /\ Len(saved) = 1
  /\ saved[1].model_state.version = 2

\* C30: every optimizer step is taken in training mode and every evaluation
\* leaves its metrics in evaluation mode; the model is in training mode
\* again at the first batch of the next epoch, and no step is taken between
\* the last epoch's evaluation and the final evaluation.
C30_ModesAndNoLateUpdate ==
  /\ last_batch.done => last_batch.net.training
  /\ tr_pc = "batch" => net.training
  /\ tr_pc \in {"schedule", "save_epoch", "save_final", "done"} => ~net.training
  /\ tr_pc \in {"final_eval", "save_final", "done"} =>
       /\ opt.steps = cfg.epochs * env.n_batches
       /\ net.version = cfg.epochs * env.n_batches
       /\ \A i \in 1..Len(saved) :
            saved[i].path.kind = "final" =>
              saved[i].model_state.version = cfg.epochs * env.n_batches

C30_Witness ==
  /\ tr_pc = "done"
  /\ cfg.epochs = 2
  /\ env.n_batches = 2
  /\ opt.steps = 4
  /\ ~net.training
  /\ last_batch.net.training

====
